---- MODULE Spec2Model ----
(***************************************************************************)
(* A model of webnet's asynchronous I/O facade (POSIX backend):            *)
(*   - net::task<T>          include/net/detail/task.h                      *)
(*   - net::TcpAcceptor      src/protocol/tcp/tcp_acceptor.cpp              *)
(*   - net::TcpConnection    src/protocol/tcp/tcp_connection.cpp            *)
(*   - net::TcpSocket/Socket src/protocol/tcp/tcp_socket.cpp,               *)
(*                           src/core/detail/socket_posix.cpp               *)
(*                                                                         *)
(* One server thread runs the library.  It is either at the driver level   *)
(* ("idle"), inside task::get(), or inside a notify_* call, and at most    *)
(* one coroutine is executing on it (thread.run).  A coroutine body is     *)
(* executed one loop iteration (one system call) per step, so that the     *)
(* peer, which lives in another thread or process, can act between two     *)
(* system calls, and so that a call that blocks in the kernel is a         *)
(* visible state.  The kernel and the peers are the environment.           *)
(***************************************************************************)
EXTENDS Integers, Sequences, FiniteSets, TLC

VARIABLES
  acc,        \* the TcpAcceptor: its listening socket and accept_awaiting_
  backlog,    \* kernel: clients that completed the handshake, not yet accepted
  nclients,   \* kernel: how many clients have connected so far
  made,       \* the TcpConnection objects async_accept has produced, by client
  conn,       \* the TcpConnection under test
  net,        \* kernel: the state of conn's descriptor and of its peer
  task,       \* the task objects with their coroutine frames and promises
  errno_,     \* the server thread's errno (detail::last_socket_error())
  thread,     \* what the server thread is executing
  lastCall,   \* history: the notify_* or close call the driver made last, if
              \* it has called nothing else since
  driverExc,  \* history: an exception escaped from a notify_* call
  ub,         \* history: a destroyed coroutine frame was resumed
  socks,      \* the Socket / TcpSocket objects of the synchronous layer
  fds,        \* kernel: the process's descriptor table
  hist,       \* history: the synchronous call made last and its outcome
  pipe,       \* kernel: the byte stream of a connected pair, with the
              \* history of what its two ends sent and received
  tobj        \* the task objects of the application: the handle_ of each,
              \* with the history of the frames they destroyed

vars == <<acc, backlog, nclients, made, conn, net, task, errno_,
          thread, lastCall, driverExc, ub, socks, fds, hist,
          pipe, tobj>>

accVars  == <<acc, backlog, nclients, made>>
connVars == <<conn, net>>
sockVars == <<socks, fds, hist, pipe>>

---------------------------------------------------------------------------
(* Bounds *)
MaxTasks   == 1   \* task objects created in one run
MaxClients == 1   \* clients that connect to the listening endpoint
MaxIntr    == 1   \* consecutive EINTR results injected into one system call
MaxGets    == 2   \* results taken from one task (get() or co_await)
MaxLen     == 2   \* bytes in a buffer passed to async_write / async_read
MaxTx      == 1   \* free space of the kernel's send buffer
MaxRx      == 1   \* bytes the kernel's receive buffer holds
MaxSocks   == 2   \* Socket objects alive at a time
MaxFds     == 2   \* descriptors the kernel's table has room for
MaxBytes   == 3   \* bytes sent over a connected pair in one run
MaxObjs    == 2   \* task objects alive at a time

TaskIds   == 1..MaxTasks
ClientIds == 1..MaxClients
NoTask    == 0    \* an empty std::coroutine_handle<>

---------------------------------------------------------------------------
(* platform_error.h *)

is_in_progress(err) == err = "EINPROGRESS"
is_interrupted_never(err) == FALSE
is_interrupted(err) == err = "EINTR"
is_would_block(err) == err = "EAGAIN"        \* EAGAIN == EWOULDBLOCK on Linux

Errnos == {"OK", "EINTR", "EAGAIN", "EINPROGRESS", "EMFILE", "EBADF",
           "ENOMEM", "ECONNREFUSED", "ENOTCONN", "EALREADY", "EISCONN"}

---------------------------------------------------------------------------
(* The kernel's answers *)

Min(a, b) == IF a < b THEN a ELSE b

\* The kernel's answers to one system call and its retries are drawn as one
\* number: intr = i > 0 interrupts the first i tries with a signal;
\* intr = -1 fails the call for lack of kernel memory; intr = -1 - i does so
\* after i interruptions.  0: the call does what the kernel state says.
Faults == (-1 - MaxIntr)..MaxIntr
NextTry(intr) == IF intr > 0 THEN intr - 1
                 ELSE IF intr < -1 THEN intr + 1 ELSE intr

---------------------------------------------------------------------------
(* Exceptions and task results *)

NoExc == [type |-> "none", what |-> ""]
system_error(err)  == [type |-> "system_error", what |-> err]
runtime_error(msg) == [type |-> "runtime_error", what |-> msg]
logic_error(msg)   == [type |-> "logic_error", what |-> msg]

NoValue     == [kind |-> "none", v |-> 0]
VoidValue   == [kind |-> "void", v |-> 0]
SizeValue(n) == [kind |-> "size", v |-> n]
ConnValue(c) == [kind |-> "conn", v |-> c]    \* unique_ptr<IConnection>; v = 0 is null

\* What a consumer receives from get() or await_resume().
Threw(e)    == [how |-> "exception", exc |-> e, val |-> NoValue]
Returned(v) == [how |-> "value", exc |-> NoExc, val |-> v]

---------------------------------------------------------------------------
(* task.h: the promise and the task object *)

\* A task object together with its coroutine frame and promise.
\*   pc    absent: not created        init: at initial_suspend
\*         running: executing on the thread
\*         suspended: at the co_await of a waiter awaitable
\*         done: at final_suspend     destroyed: handle_.destroy() was called
\*   pos   where the body continues: "start" (from initial_suspend) or
\*         "loop" (after the co_await inside its loop)
\*   len, off   async_write/async_read: the buffer length and the bytes of it
\*         the kernel has accepted so far (remaining == buffer.subspan(off))
\*   continuation   promise.continuation_ is set (the awaiting coroutine)
\* History fields (not program state):
\*   started    get() or co_await has been applied to the task
\*   lastOs     how the coroutine's latest system call ended
\*   raised     the exception the body raised
\*   delivered  what each get() / await_resume handed to the consumer
\*   wire       async_write: the bytes each successful send gave the kernel
NewTask(k, n) ==
  [kind |-> k, pc |-> "init", pos |-> "start", len |-> n, off |-> 0,
   value |-> NoValue, exception |-> NoExc, continuation |-> FALSE,
   started |-> FALSE, lastOs |-> "none", raised |-> NoExc,
   delivered |-> <<>>, wire |-> <<>>]

AbsentTask == [NewTask("none", 0) EXCEPT !.pc = "absent"]

IsVoid(k) == k \in {"write", "connect"}

\* promise_type::initial_suspend.
initial_suspend_never == "suspend_never"
initial_suspend == "suspend_always"

\* promise_type::return_value / return_void.
return_value(p, v) == [p EXCEPT !.value = v]
return_void(p)     == p

\* promise_type::unhandled_exception: the exception is stored; nothing is
\* rethrown to whoever resumed the coroutine (escapes = FALSE).
unhandled_exception_lost(p, e)    == [promise |-> p, escapes |-> FALSE]
unhandled_exception_rethrow(p, e) == [promise |-> p, escapes |-> TRUE]
unhandled_exception(p, e) ==
  [promise |-> [p EXCEPT !.exception = e], escapes |-> FALSE]

\* The value left behind by std::move(*promise.value_).
MovedFrom(v) == IF v.kind = "conn" THEN ConnValue(0) ELSE v

\* task<T>::await_resume / task<void>::await_resume on promise p:
\* the result handed to the awaiting coroutine, and the promise afterwards.
await_resume(p) ==
  IF p.exception # NoExc
    THEN [res |-> Threw(p.exception), promise |-> p]
    ELSE IF IsVoid(p.kind)
      THEN [res |-> Returned(VoidValue), promise |-> p]
      ELSE [res |-> Returned(p.value),
            promise |-> [p EXCEPT !.value = MovedFrom(p.value)]]

\* The tail of task<T>::get / task<void>::get, once handle_.done().
get_result(p) ==
  IF p.exception # NoExc
    THEN [res |-> Threw(p.exception), promise |-> p]
    ELSE IF IsVoid(p.kind)
      THEN [res |-> Returned(VoidValue), promise |-> p]
      ELSE IF p.value = NoValue
        THEN [res |-> Threw(runtime_error("task has no result")), promise |-> p]
        ELSE [res |-> Returned(p.value),
              promise |-> [p EXCEPT !.value = MovedFrom(p.value)]]

Deliver(r) == [r.promise EXCEPT !.delivered = Append(@, r.res)]

\* promise_type::final_suspend: the coroutine is done; its awaiter resumes
\* continuation_ if one is set, and the awaiting coroutine then runs
\* await_resume on the task.
final_suspend_resumesAlways(p) ==
  Deliver(await_resume([p EXCEPT !.pc = "done"]))
final_suspend(p) ==
  LET d == [p EXCEPT !.pc = "done"] IN
  IF d.continuation THEN Deliver(await_resume(d)) ELSE d

\* Control returns from a coroutine (it suspended or finished) to whoever
\* called resume(): the loop of get(), or a notify_* / co_await that returns
\* to the driver.
ReturnToResumer ==
  [op |-> IF thread.op = "get" THEN "get" ELSE "idle",
   arg |-> IF thread.op = "get" THEN thread.arg ELSE NoTask,
   run |-> NoTask]

\* The body of task t ends with co_return (exc = NoExc) or by raising exc.
\* p is the frame after the body's last statement.
Finish(t, p, exc) ==
  LET u == IF exc = NoExc
             THEN [promise |-> p, escapes |-> FALSE]
             ELSE unhandled_exception([p EXCEPT !.raised = exc], exc)
  IN /\ task' = [task EXCEPT ![t] = final_suspend(u.promise)]
     /\ thread' = ReturnToResumer
     /\ driverExc' = (driverExc \/ (u.escapes /\ thread.op = "notify"))

\* The body of task t suspends at a waiter awaitable.
Suspend(t, p) ==
  /\ task' = [task EXCEPT ![t] = [p EXCEPT !.pc = "suspended"]]
  /\ thread' = ReturnToResumer
  /\ UNCHANGED driverExc

\* coroutine_handle::resume() on a coroutine that is suspended.
Resumed(p) ==
  [p EXCEPT !.pc = "running",
            !.pos = IF p.pc = "init" THEN "start" ELSE "loop"]

Idle == thread.op = "idle" /\ ~ub

\* Task objects are numbered in the order of their creation.
IsFreeTask(t) ==
  /\ task[t].pc = "absent"
  /\ \A u \in TaskIds : u < t => task[u].pc # "absent"

\* errno after resuming a coroutine suspended in frame p: the `continue` of
\* async_accept's loop destroys the empty `socket` local, and ~Socket calls
\* ::close on the invalid descriptor.
ErrnoAfterResume(p) ==
  IF p.kind = "accept" /\ p.pc = "suspended" THEN "EBADF" ELSE errno_

---------------------------------------------------------------------------
(* The listening socket and TcpSocket::accept *)

PortOf(c) == c     \* the peer port of client c: distinct and never 0

\* ::accept on listening socket s, under the kernel's answer intr (see
\* Faults; the hard failure of ::accept is EMFILE, out of descriptors).
OsAccept(s, intr) ==
  IF ~s.valid THEN [ret |-> "fail", err |-> "EBADF"]
  ELSE IF intr > 0 \/ intr < -1 THEN [ret |-> "fail", err |-> "EINTR"]
  ELSE IF intr = -1 THEN [ret |-> "fail", err |-> "EMFILE"]
  ELSE IF backlog # <<>> THEN [ret |-> "fd", err |-> "OK"]
  ELSE IF s.blocking = "NonBlocking" THEN [ret |-> "fail", err |-> "EAGAIN"]
  ELSE [ret |-> "block", err |-> "OK"]

\* TcpSocket::accept(peer) on socket s; e is errno on entry.
\*   kind "socket": a valid TcpSocket for the head of the backlog
\*        "empty":  TcpSocket(nullptr), the would-block sentinel
\*        "throw":  std::system_error        "block": the thread sleeps in ::accept
RECURSIVE TcpSocket_accept_throws(_, _, _)
TcpSocket_accept_throws(s, intr, e) ==
  LET r == OsAccept(s, intr) IN
  IF r.ret = "block" THEN [kind |-> "block", errno |-> e, exc |-> NoExc]
  ELSE IF r.ret = "fd"
    THEN [kind |-> "socket", errno |-> e, exc |-> NoExc]
    ELSE IF is_interrupted(r.err)
      THEN TcpSocket_accept_throws(s, NextTry(intr), r.err)
      ELSE [kind |-> "throw", errno |-> r.err, exc |-> system_error(r.err)]
RECURSIVE TcpSocket_accept(_, _, _)
TcpSocket_accept(s, intr, e) ==
  LET r == OsAccept(s, intr) IN
  IF r.ret = "block" THEN [kind |-> "block", errno |-> e, exc |-> NoExc]
  ELSE IF r.ret = "fd"
    THEN [kind |-> "socket", errno |-> e, exc |-> NoExc]
    ELSE IF is_interrupted(r.err) THEN TcpSocket_accept(s, NextTry(intr), r.err)
    ELSE IF is_would_block(r.err)
      THEN [kind |-> "empty", errno |-> r.err, exc |-> NoExc]
      ELSE [kind |-> "throw", errno |-> r.err, exc |-> system_error(r.err)]

\* The socket object TcpSocket::accept builds around an accepted descriptor:
\* family and blocking mode are written as constants, inheritability is the
\* listener's.  osNonblock is the descriptor's O_NONBLOCK flag, which ::accept
\* does not set.
AcceptedSocket(s) ==
  [valid |-> TRUE, family |-> "IPV4", blocking |-> "NonBlocking",
   osNonblock |-> FALSE]

\* Socket::setBlocking(blocking_type) on a valid descriptor.
setBlocking_flagOnly(sock, mode) == [sock EXCEPT !.blocking = mode]
setBlocking(sock, mode) ==
  [sock EXCEPT !.blocking = mode, !.osNonblock = (mode = "NonBlocking")]

\* TcpConnection(socket, remote): the object async_accept returns.
TcpConnection_noRemote(sock, c) ==
  [exists |-> TRUE, socket |-> sock, remotePort |-> 0,
   read_awaiting_ |-> NoTask, write_awaiting_ |-> NoTask,
   write_buffer_ |-> <<>>, closed_ |-> FALSE]
TcpConnection(sock, c) ==
  [exists |-> TRUE, socket |-> sock, remotePort |-> PortOf(c),
   read_awaiting_ |-> NoTask, write_awaiting_ |-> NoTask,
   write_buffer_ |-> <<>>, closed_ |-> FALSE]

NoConnection ==
  [exists |-> FALSE,
   socket |-> [valid |-> FALSE, family |-> "IPV4", blocking |-> "Blocking",
               osNonblock |-> FALSE],
   remotePort |-> 0,
   read_awaiting_ |-> NoTask, write_awaiting_ |-> NoTask,
   write_buffer_ |-> <<>>, closed_ |-> FALSE]

---------------------------------------------------------------------------
(* TcpAcceptor *)

\* The thread sleeps inside ::accept: the running coroutine is async_accept
\* and the kernel has nothing to give to a blocking listener.
BlockedInAccept ==
  /\ thread.run # NoTask
  /\ task[thread.run].kind = "accept"
  /\ TcpSocket_accept(acc, 0, errno_).kind = "block"

\* Awaiter::await_suspend(h) of async_accept, on acceptor a.
Awaiter_await_suspend_forgets(a, h) == a
Awaiter_await_suspend(a, h) == [a EXCEPT !.accept_awaiting_ = h]

\* One iteration of the loop of TcpAcceptor::async_accept, in task t.
AsyncAcceptIter(t) ==
  /\ ~ub
  /\ thread.run = t
  /\ task[t].kind = "accept"
  /\ \E intr \in Faults :
       LET r == TcpSocket_accept(acc, intr, errno_)
           p == task[t]
       IN
       /\ r.kind # "block"
       /\ IF r.kind = "socket"
            THEN LET c == Head(backlog)
                     sock == setBlocking(AcceptedSocket(acc), "NonBlocking")
                 IN /\ backlog' = Tail(backlog)
                    /\ made' = [made EXCEPT ![c] = TcpConnection(sock, c)]
                    \* the moved-from `socket` local is destroyed: ::close(-1)
                    /\ errno_' = "EBADF"
                    /\ acc' = acc
                    /\ Finish(t, return_value([p EXCEPT !.lastOs = "ok"],
                                              ConnValue(c)), NoExc)
          ELSE IF r.kind = "throw"
            THEN /\ errno_' = r.errno
                 /\ UNCHANGED <<backlog, made, acc>>
                 /\ Finish(t, [p EXCEPT !.lastOs = "error"], r.exc)
          ELSE \* socket.is_valid() is false: classify last_socket_error()
               LET err == r.errno IN
               /\ errno_' = err
               /\ UNCHANGED <<backlog, made>>
               /\ IF is_interrupted(err)
                    THEN /\ task' = [task EXCEPT ![t].lastOs = "wouldblock"]
                         /\ UNCHANGED <<acc, thread, driverExc>>
                  ELSE IF is_would_block(err)
                    THEN /\ acc' = Awaiter_await_suspend(acc, t)
                         /\ Suspend(t, [p EXCEPT !.lastOs = "wouldblock"])
                  ELSE /\ acc' = acc
                       /\ Finish(t, [p EXCEPT !.lastOs = "error"],
                                 system_error(err))
  /\ UNCHANGED <<tobj, sockVars, nclients, connVars, lastCall, ub>>

\* TcpAcceptor::notify_readable.  A slot that still names a destroyed frame
\* makes accept_awaiting_.done() read freed storage: either answer is
\* possible, and resuming the frame is undefined behaviour.
AcceptorNotifyReadable ==
  /\ Idle
  /\ lastCall' = "acceptor.notify_readable"
  /\ LET h == acc.accept_awaiting_ IN
     \E garbage \in BOOLEAN :
       LET isDone == IF h = NoTask THEN FALSE
                     ELSE IF task[h].pc = "destroyed" THEN garbage
                     ELSE task[h].pc = "done"
       IN
       /\ (h = NoTask \/ task[h].pc # "destroyed") => garbage
       /\ IF h # NoTask /\ ~isDone
            THEN /\ acc' = [acc EXCEPT !.accept_awaiting_ = NoTask]
                 /\ IF task[h].pc = "destroyed"
                      THEN /\ ub' = TRUE
                           /\ UNCHANGED <<task, thread, errno_>>
                      ELSE /\ task' = [task EXCEPT ![h] = Resumed(task[h])]
                           /\ thread' = [op |-> "notify", arg |-> NoTask, run |-> h]
                           /\ errno_' = ErrnoAfterResume(task[h])
                           /\ ub' = ub
            ELSE UNCHANGED <<acc, task, thread, errno_, ub>>
  /\ UNCHANGED <<tobj, sockVars, backlog, nclients, made, connVars, driverExc>>

\* TcpAcceptor::close: socket_.close().
AcceptorClose ==
  /\ Idle
  /\ acc.valid
  /\ acc' = [acc EXCEPT !.valid = FALSE]
  /\ backlog' = <<>>
  /\ lastCall' = "acceptor.close"
  /\ UNCHANGED <<tobj, sockVars, nclients, made, connVars, task, errno_, thread,
                 driverExc, ub>>

\* TcpAcceptor::async_accept(): the coroutine is created, at initial_suspend.
CreateAccept ==
  /\ Idle
  /\ \E t \in TaskIds :
       /\ IsFreeTask(t)
       /\ IF initial_suspend = "suspend_never"
            THEN /\ task' = [task EXCEPT ![t] = Resumed(NewTask("accept", 0))]
                 /\ thread' = [op |-> "create", arg |-> NoTask, run |-> t]
            ELSE /\ task' = [task EXCEPT ![t] = NewTask("accept", 0)]
                 /\ thread' = thread
       /\ lastCall' = "none"
  /\ UNCHANGED <<tobj, sockVars, accVars, connVars, errno_, driverExc, ub>>

---------------------------------------------------------------------------
(* Socket::raw_recv / raw_send and TcpSocket::connect (socket_posix.cpp,     *)
(* tcp_socket.cpp) over the kernel state `net` of the connection's socket   *)

\* The conversion of send()'s std::size_t result to `int sent`.
ToInt(n) == IF n <= 2147483647 THEN n ELSE ((n - 2147483647) - 2147483647) - 2

\* ::recv of up to L bytes; n is how many the kernel hands over if it has
\* data.  intr > 0: a signal interrupts the call; intr < 0: the kernel is out
\* of memory.
OsRecv(s, k, n, intr, L) ==
  IF intr > 0 \/ intr < -1 THEN [ret |-> -1, err |-> "EINTR"]
  ELSE IF intr = -1 THEN [ret |-> -1, err |-> "ENOMEM"]
  ELSE IF k.state # "connected" THEN [ret |-> -1, err |-> "ENOTCONN"]
  ELSE IF k.rx > 0 THEN [ret |-> Min(n, Min(L, k.rx)), err |-> "OK"]
  ELSE IF k.peerShut THEN [ret |-> 0, err |-> "OK"]
  ELSE IF s.osNonblock THEN [ret |-> -1, err |-> "EAGAIN"]
  ELSE [ret |-> -2, err |-> "OK"]          \* -2: the call sleeps in the kernel

\* Socket::raw_recv(buffer) with buffer.size() = L; e is errno on entry.
RECURSIVE raw_recv(_, _, _, _, _, _)
raw_recv(s, k, n, intr, L, e) ==
  IF ~s.valid
    THEN [kind |-> "throw", n |-> 0, errno |-> e, os |-> "none",
          exc |-> runtime_error("recv invalid socket")]
  ELSE LET r == OsRecv(s, k, n, intr, L) IN
    IF r.ret = -2
      THEN [kind |-> "block", n |-> 0, errno |-> e, os |-> "none", exc |-> NoExc]
    ELSE IF r.ret >= 0
      THEN [kind |-> "ret", n |-> r.ret, errno |-> e,
            os |-> IF r.ret > 0 THEN "data" ELSE "eof", exc |-> NoExc]
    ELSE IF is_interrupted(r.err) THEN raw_recv(s, k, n, NextTry(intr), L, r.err)
    ELSE IF is_would_block(r.err)
      THEN IF s.blocking = "NonBlocking"
             THEN [kind |-> "ret", n |-> 0, errno |-> r.err,
                   os |-> "wouldblock", exc |-> NoExc]
             \* a blocking socket retries until the kernel has something
             ELSE [kind |-> "block", n |-> 0, errno |-> r.err, os |-> "none",
                   exc |-> NoExc]
    ELSE [kind |-> "throw", n |-> 0, errno |-> r.err, os |-> "error",
          exc |-> system_error(r.err)]

\* ::send of L > 0 bytes; n is how many the kernel takes if it has room.
OsSend(s, k, n, intr, L) ==
  IF intr > 0 \/ intr < -1 THEN [ret |-> -1, err |-> "EINTR"]
  ELSE IF intr = -1 THEN [ret |-> -1, err |-> "ENOMEM"]
  ELSE IF k.state # "connected" THEN [ret |-> -1, err |-> "ENOTCONN"]
  ELSE IF k.txSpace > 0 THEN [ret |-> Min(n, Min(L, k.txSpace)), err |-> "OK"]
  ELSE IF s.osNonblock THEN [ret |-> -1, err |-> "EAGAIN"]
  ELSE [ret |-> -2, err |-> "OK"]

\* Socket::raw_send(data) with data.size() = L; e is errno on entry.
RECURSIVE raw_send_claimsAll(_, _, _, _, _, _)
raw_send_claimsAll(s, k, n, intr, L, e) ==
  IF ~s.valid
    THEN [kind |-> "throw", n |-> 0, errno |-> e, os |-> "none",
          exc |-> runtime_error("send on invalid socket")]
  ELSE LET r == OsSend(s, k, n, intr, L) IN
    IF r.ret = -2
      THEN [kind |-> "block", n |-> 0, errno |-> e, os |-> "none", exc |-> NoExc]
    ELSE IF r.ret >= 0
      THEN [kind |-> "ret", n |-> L, errno |-> e, os |-> "data",
            exc |-> NoExc]
    ELSE IF is_interrupted(r.err)
      THEN raw_send_claimsAll(s, k, n, NextTry(intr), L, r.err)
    ELSE IF is_would_block(r.err)
      THEN IF s.blocking = "NonBlocking"
             THEN [kind |-> "ret", n |-> 0, errno |-> r.err,
                   os |-> "wouldblock", exc |-> NoExc]
             ELSE [kind |-> "block", n |-> 0, errno |-> r.err, os |-> "none",
                   exc |-> NoExc]
    ELSE [kind |-> "throw", n |-> 0, errno |-> r.err, os |-> "error",
          exc |-> system_error(r.err)]
RECURSIVE raw_send(_, _, _, _, _, _)
raw_send(s, k, n, intr, L, e) ==
  IF ~s.valid
    THEN [kind |-> "throw", n |-> 0, errno |-> e, os |-> "none",
          exc |-> runtime_error("send on invalid socket")]
  ELSE LET r == OsSend(s, k, n, intr, L) IN
    IF r.ret = -2
      THEN [kind |-> "block", n |-> 0, errno |-> e, os |-> "none", exc |-> NoExc]
    ELSE IF r.ret >= 0
      THEN [kind |-> "ret", n |-> r.ret, errno |-> e, os |-> "data",
            exc |-> NoExc]
    ELSE IF is_interrupted(r.err) THEN raw_send(s, k, n, NextTry(intr), L, r.err)
    ELSE IF is_would_block(r.err)
      THEN IF s.blocking = "NonBlocking"
             THEN [kind |-> "ret", n |-> 0, errno |-> r.err,
                   os |-> "wouldblock", exc |-> NoExc]
             ELSE [kind |-> "block", n |-> 0, errno |-> r.err, os |-> "none",
                   exc |-> NoExc]
    ELSE [kind |-> "throw", n |-> 0, errno |-> r.err, os |-> "error",
          exc |-> system_error(r.err)]

\* ::connect.  A non-blocking descriptor starts the handshake and reports
\* EINPROGRESS; a blocking one completes it (or is refused) inside the call,
\* unless a signal interrupts it, and then the handshake goes on by itself.
OsConnect(s, state, intr, refused) ==
  IF state = "connected" THEN [ret |-> -1, err |-> "EISCONN", state |-> state]
  ELSE IF state = "inprogress"
    THEN [ret |-> -1, err |-> "EALREADY", state |-> state]
  ELSE IF s.osNonblock
    THEN [ret |-> -1, err |-> "EINPROGRESS", state |-> "inprogress"]
  ELSE IF intr > 0 THEN [ret |-> -1, err |-> "EINTR", state |-> "inprogress"]
  ELSE IF refused
    THEN [ret |-> -1, err |-> "ECONNREFUSED", state |-> "unconnected"]
  ELSE [ret |-> 0, err |-> "OK", state |-> "connected"]

\* TcpSocket::connect(ep); e is errno on entry.
RECURSIVE TcpSocket_connect_anyMode(_, _, _, _, _)
TcpSocket_connect_anyMode(s, state, intr, refused, e) ==
  IF ~s.valid
    THEN [kind |-> "throw", errno |-> e, state |-> state,
          exc |-> logic_error("connect on invalid socket")]
  ELSE LET r == OsConnect(s, state, intr, refused) IN
    IF r.ret = 0
      THEN [kind |-> "ret", errno |-> e, state |-> r.state, exc |-> NoExc]
    ELSE IF is_interrupted(r.err)
      THEN TcpSocket_connect_anyMode(s, r.state, intr - 1, refused, r.err)
    ELSE IF is_in_progress(r.err)
      THEN [kind |-> "ret", errno |-> r.err, state |-> r.state, exc |-> NoExc]
    ELSE [kind |-> "throw", errno |-> r.err, state |-> r.state,
          exc |-> system_error(r.err)]
RECURSIVE TcpSocket_connect(_, _, _, _, _)
TcpSocket_connect(s, state, intr, refused, e) ==
  IF ~s.valid
    THEN [kind |-> "throw", errno |-> e, state |-> state,
          exc |-> logic_error("connect on invalid socket")]
  ELSE LET r == OsConnect(s, state, intr, refused) IN
    IF r.ret = 0
      THEN [kind |-> "ret", errno |-> e, state |-> r.state, exc |-> NoExc]
    ELSE IF is_interrupted(r.err)
      THEN TcpSocket_connect(s, r.state, intr - 1, refused, r.err)
    ELSE IF s.blocking = "NonBlocking" /\ is_in_progress(r.err)
      THEN [kind |-> "ret", errno |-> r.err, state |-> r.state, exc |-> NoExc]
    ELSE [kind |-> "throw", errno |-> r.err, state |-> r.state,
          exc |-> system_error(r.err)]

\* Socket::close(): ::close(handle_); handle_ = Invalid.
Socket_close(s) == [s EXCEPT !.valid = FALSE]

---------------------------------------------------------------------------
(* TcpConnection *)

\* One iteration of the loop of TcpConnection::async_read(buffer), in task t.
AsyncReadIter(t) ==
  /\ ~ub
  /\ thread.run = t
  /\ task[t].kind = "read"
  /\ \E intr \in Faults, n \in 1..MaxLen :
       LET p == task[t]
           r == raw_recv(conn.socket, net, n, intr, p.len, errno_)
           received == r.n                           \* std::size_t
           q == [p EXCEPT !.lastOs = r.os]
       IN
       /\ r.kind # "block"
       /\ (n <= Min(p.len, net.rx) /\ intr >= 0) \/ n = 1
       /\ errno_' = r.errno
       /\ IF r.kind = "throw"
            THEN /\ Finish(t, q, r.exc)
                 /\ UNCHANGED <<conn, net>>
          ELSE IF received > 0
            THEN /\ net' = [net EXCEPT !.rx = @ - received]
                 /\ conn' = conn
                 /\ Finish(t, return_value(q, SizeValue(received)), NoExc)
          ELSE IF received = 0
            THEN \* "peer performed orderly shutdown"
                 /\ Finish(t, return_value(q, SizeValue(0)), NoExc)
                 /\ UNCHANGED <<conn, net>>
          ELSE /\ net' = net
               /\ IF is_would_block(r.errno)
                    THEN /\ conn' = [conn EXCEPT !.read_awaiting_ = t]
                         /\ Suspend(t, q)
                    ELSE /\ conn' = conn
                         /\ Finish(t, q, runtime_error("recv failed"))
  /\ UNCHANGED <<tobj, sockVars, accVars, lastCall, ub>>

\* remaining = remaining.subspan(sent): the offset of `remaining` in the
\* buffer after `sent` more bytes were accepted.
subspan_same(off, sent) == off
subspan(off, sent) == off + sent

\* One iteration of the loop of TcpConnection::async_write(buffer), in task t.
\* The buffer holds the bytes 1..len; remaining == buffer.subspan(off).
AsyncWriteIter(t) ==
  /\ ~ub
  /\ thread.run = t
  /\ task[t].kind = "write"
  /\ \E intr \in Faults, n \in 1..MaxLen :
       LET p == task[t]
           L == p.len - p.off                        \* remaining.size()
           r == raw_send(conn.socket, net, n, intr, L, errno_)
           sent == ToInt(r.n)                        \* int sent
           q == [p EXCEPT !.lastOs = r.os]
       IN
       IF L = 0
         THEN \* while (!remaining.empty()) is false at once: co_return
              /\ n = 1 /\ intr = 0
              /\ Finish(t, return_void(p), NoExc)
              /\ UNCHANGED <<conn, net, errno_>>
       ELSE
       /\ r.kind # "block"
       /\ (n <= Min(L, net.txSpace) /\ intr >= 0) \/ n = 1
       /\ errno_' = r.errno
       /\ IF r.kind = "throw"
            THEN /\ Finish(t, q, r.exc)
                 /\ UNCHANGED <<conn, net>>
          ELSE IF sent > 0
            THEN LET q2 == [q EXCEPT
                              !.off = subspan(@, sent),
                              !.wire = Append(@, [i \in 1..sent |-> p.off + i])]
                 IN /\ net' = [net EXCEPT !.txSpace = @ - sent]
                    /\ conn' = conn
                    /\ IF q2.off = q2.len
                         THEN Finish(t, return_void(q2), NoExc)
                         ELSE /\ task' = [task EXCEPT ![t] = q2]
                              /\ UNCHANGED <<thread, driverExc>>
          ELSE IF sent = 0
            THEN /\ Finish(t, q, runtime_error("connection closed"))
                 /\ UNCHANGED <<conn, net>>
          ELSE /\ net' = net
               /\ IF is_would_block(r.errno)
                    THEN /\ conn' = [conn EXCEPT !.write_awaiting_ = t]
                         /\ Suspend(t, q)
                    ELSE /\ conn' = conn
                         /\ Finish(t, q, runtime_error("send failed"))
  /\ UNCHANGED <<tobj, sockVars, accVars, lastCall, ub>>

\* TcpConnection::async_connect(ep), in task t: from the start, the call of
\* socket_.connect and the first pass of the loop; after a resumption, one
\* more pass of the loop.
AsyncConnectIter(t) ==
  /\ ~ub
  /\ thread.run = t
  /\ task[t].kind = "connect"
  /\ \E intr \in 0..MaxIntr, refused \in BOOLEAN :
       LET p == task[t]
           r == IF p.pos = "start"
                  THEN TcpSocket_connect(conn.socket, net.state, intr,
                                         refused, errno_)
                  ELSE [kind |-> "ret", errno |-> errno_, state |-> net.state,
                        exc |-> NoExc]
           err == r.errno                            \* last_socket_error()
           q == [p EXCEPT !.lastOs =
                   IF r.kind = "throw" THEN "error"
                   ELSE IF is_in_progress(err) THEN "inprogress" ELSE "ok"]
       IN
       /\ p.pos = "loop" => (intr = 0 /\ ~refused)
       /\ intr >= 0
       /\ errno_' = r.errno
       /\ net' = [net EXCEPT !.state = r.state]
       /\ IF r.kind = "throw"
            THEN /\ Finish(t, q, r.exc)
                 /\ conn' = conn
          ELSE IF ~is_in_progress(err)
            THEN /\ Finish(t, return_void(q), NoExc)
                 /\ conn' = conn
          ELSE /\ conn' = [conn EXCEPT !.write_awaiting_ = t]
               /\ Suspend(t, q)
  /\ UNCHANGED <<tobj, sockVars, accVars, lastCall, ub>>

\* What resuming the handle in a waiter slot does: the coroutine continues,
\* unless its frame has been destroyed (undefined behaviour) .
ResumeWaiter(h) ==
  IF task[h].pc = "suspended"
    THEN /\ task' = [task EXCEPT ![h] = Resumed(task[h])]
         /\ thread' = [op |-> "notify", arg |-> NoTask, run |-> h]
         /\ errno_' = ErrnoAfterResume(task[h])
         /\ ub' = ub
    ELSE /\ ub' = TRUE
         /\ UNCHANGED <<task, thread, errno_>>

\* TcpConnection::notify_readable.
NotifyReadable ==
  /\ Idle
  /\ conn.exists
  /\ lastCall' = "notify_readable"
  /\ IF conn.read_awaiting_ # NoTask
       THEN /\ conn' = [conn EXCEPT !.read_awaiting_ = NoTask]
            /\ ResumeWaiter(conn.read_awaiting_)
       ELSE UNCHANGED <<conn, task, thread, errno_, ub>>
  /\ UNCHANGED <<tobj, sockVars, accVars, net, driverExc>>

\* TcpConnection::close.
TcpConnection_close_dropsWaiters(c) ==
  IF ~c.closed_
    THEN [c EXCEPT !.closed_ = TRUE, !.socket = Socket_close(c.socket),
                   !.read_awaiting_ = NoTask, !.write_awaiting_ = NoTask]
    ELSE c
TcpConnection_close_flagOnly(c) ==
  IF ~c.closed_ THEN [c EXCEPT !.closed_ = TRUE] ELSE c
TcpConnection_close(c) ==
  IF ~c.closed_
    THEN [c EXCEPT !.closed_ = TRUE, !.socket = Socket_close(c.socket)]
    ELSE c

\* TcpConnection::notify_writable.
NotifyWritable ==
  /\ Idle
  /\ conn.exists
  /\ lastCall' = "notify_writable"
  /\ IF conn.write_buffer_ = <<>>
       THEN UNCHANGED <<conn, net, task, thread, errno_, ub>>
       ELSE \E intr \in Faults, m \in 1..MaxLen :
         LET r == raw_send(conn.socket, net, m, intr,
                           Len(conn.write_buffer_), errno_)
             n == r.n
             wb == SubSeq(conn.write_buffer_, n + 1, Len(conn.write_buffer_))
         IN
         /\ r.kind # "block"
         /\ errno_' = r.errno
         /\ IF r.kind = "throw"
              THEN \* catch (...) { close(); }
                   /\ conn' = TcpConnection_close(conn)
                   /\ UNCHANGED <<net, task, thread, ub>>
              ELSE /\ net' = [net EXCEPT !.txSpace = @ - n]
                   /\ IF wb = <<>> /\ conn.write_awaiting_ # NoTask
                        THEN /\ conn' = [conn EXCEPT !.write_buffer_ = wb,
                                                     !.write_awaiting_ = NoTask]
                             /\ ResumeWaiter(conn.write_awaiting_)
                        ELSE /\ conn' = [conn EXCEPT !.write_buffer_ = wb]
                             /\ UNCHANGED <<task, thread, ub>>
  /\ UNCHANGED <<tobj, sockVars, accVars, driverExc>>

\* The driver calls TcpConnection::close().
ConnectionClose ==
  /\ Idle
  /\ conn.exists
  /\ conn' = TcpConnection_close(conn)
  /\ lastCall' = "close"
  /\ UNCHANGED <<tobj, sockVars, accVars, net, task, errno_, thread, driverExc, ub>>

\* conn.async_read(buffer) / async_write(buffer) / async_connect(ep): the
\* coroutine is created, at initial_suspend.  n is the buffer's length.
CreateIo(kind, n) ==
  /\ Idle
  /\ conn.exists
  /\ \E t \in TaskIds :
       /\ IsFreeTask(t)
       /\ IF initial_suspend = "suspend_never"
            THEN /\ task' = [task EXCEPT ![t] = Resumed(NewTask(kind, n))]
                 /\ thread' = [op |-> "create", arg |-> NoTask, run |-> t]
            ELSE /\ task' = [task EXCEPT ![t] = NewTask(kind, n)]
                 /\ thread' = thread
  /\ lastCall' = "none"
  /\ UNCHANGED <<tobj, sockVars, accVars, connVars, errno_, driverExc, ub>>

CreateRead    == \E n \in 1..MaxLen : CreateIo("read", n)
CreateWrite   == \E n \in 0..MaxLen : CreateIo("write", n)
CreateConnect == CreateIo("connect", 0)

\* The thread sleeps in ::recv or ::send, or spins in raw_recv / raw_send.
BlockedInIo ==
  /\ thread.run # NoTask
  /\ LET p == task[thread.run] IN
     \/ /\ p.kind = "read"
        /\ raw_recv(conn.socket, net, 1, 0, p.len, errno_).kind = "block"
     \/ /\ p.kind = "write"
        /\ p.len > p.off
        /\ raw_send(conn.socket, net, 1, 0, p.len - p.off, errno_).kind = "block"

---------------------------------------------------------------------------
(* task.h: get(), co_await and ~task, as the driver uses them *)

\* History: the task has been driven with get() or awaited.
Driven(p, first) == IF first THEN [p EXCEPT !.started = TRUE] ELSE p

\* One pass of get()'s `while (!handle_.done()) handle_.resume();` followed,
\* when the coroutine is done, by the rest of get().  first: this is the call
\* of get(), not a later pass of its loop.
GetPass(t, first) ==
  IF task[t].pc = "done"
    THEN /\ task' = [task EXCEPT ![t] =
                       Deliver(get_result(Driven(task[t], first)))]
         /\ thread' = [op |-> "idle", arg |-> NoTask, run |-> NoTask]
         /\ errno_' = errno_
    ELSE /\ task' = [task EXCEPT ![t] = Resumed(Driven(task[t], first))]
         /\ thread' = [op |-> "get", arg |-> t, run |-> t]
         /\ errno_' = ErrnoAfterResume(task[t])

\* The driver calls t.get() on a task that owns a coroutine.
GetCall(t) ==
  /\ Idle
  /\ task[t].pc \in {"init", "suspended", "done"}
  /\ task[t].pc # "done" => ~task[t].continuation
  /\ Len(task[t].delivered) < MaxGets
  /\ lastCall' = "none"
  /\ GetPass(t, TRUE)
  /\ UNCHANGED <<tobj, sockVars, accVars, connVars, driverExc, ub>>

\* get() continues its loop after the coroutine returned control to it.
GetLoop ==
  /\ ~ub
  /\ thread.op = "get"
  /\ thread.run = NoTask
  /\ GetPass(thread.arg, FALSE)
  /\ UNCHANGED <<tobj, sockVars, accVars, connVars, lastCall, driverExc, ub>>

\* A coroutine of the application evaluates `co_await t`: await_ready, and
\* then either await_resume at once or await_suspend, which installs the
\* continuation and resumes t's coroutine.
Await(t) ==
  /\ Idle
  /\ task[t].pc \in {"init", "done"}
  /\ ~task[t].continuation
  /\ Len(task[t].delivered) < MaxGets
  /\ lastCall' = "none"
  /\ IF task[t].pc = "done"
       THEN /\ task' = [task EXCEPT ![t] =
                          Deliver(await_resume(Driven(task[t], TRUE)))]
            /\ thread' = thread
       ELSE /\ task' = [task EXCEPT ![t] =
                          [Resumed(Driven(task[t], TRUE))
                             EXCEPT !.continuation = TRUE]]
            /\ thread' = [op |-> "await", arg |-> NoTask, run |-> t]
  /\ UNCHANGED <<tobj, sockVars, accVars, connVars, errno_, driverExc, ub>>

\* The coroutine that awaits t is itself a task driven with get(): t's
\* coroutine suspended at a waiter awaitable, so control went back through
\* await_suspend to get()'s loop, which finds the awaiting coroutine not done
\* and resumes it.  It continues after its co_await with await_resume on t.
\* For a task<T> without exception await_resume then dereferences the empty
\* optional value_, which is undefined: the read crashes or yields whatever
\* the storage holds.
OuterGetResumes(t) ==
  /\ Idle
  /\ task[t].pc = "suspended"
  /\ task[t].continuation
  /\ Len(task[t].delivered) < MaxGets
  /\ lastCall' = "none"
  /\ \E crash \in BOOLEAN :
       LET undefined == ~IsVoid(task[t].kind) /\ task[t].exception = NoExc
       IN
       /\ crash => undefined
       /\ ub' = (ub \/ crash)
       /\ task' = IF crash THEN task
                  ELSE [task EXCEPT ![t] = Deliver(await_resume(task[t]))]
  /\ UNCHANGED <<tobj, sockVars, accVars, connVars, errno_, thread,
                 driverExc>>

\* ~task(): handle_.destroy().  Nothing else is touched: the waiter slots of
\* the acceptor and of the connection keep the handle.  Destroying the frame
\* of a suspended async_accept destroys its empty `socket` local.
DestroyTask(t) ==
  /\ Idle
  /\ task[t].pc \in {"init", "suspended", "done"}
  /\ task' = [task EXCEPT ![t] = [AbsentTask EXCEPT !.pc = "destroyed"]]
  /\ errno_' = ErrnoAfterResume(task[t])
  /\ lastCall' = "none"
  /\ UNCHANGED <<tobj, sockVars, accVars, connVars, thread, driverExc, ub>>

---------------------------------------------------------------------------
(* task.h: the task objects, which own the coroutine frames *)

ObjIds == 1..MaxObjs
NoObj  == 0                    \* no second operand

\* A task object: handle_ names the frame it owns; NoTask: it is empty.
NoTaskObject == [alive |-> FALSE, handle_ |-> NoTask]

\* task() noexcept = default.
task_default == [alive |-> TRUE, handle_ |-> NoTask]

\* explicit task(handle_type handle), as get_return_object calls it.
task_from(h) == [alive |-> TRUE, handle_ |-> h]

\* std::exchange(other.handle_, {}): the value taken and the value left.
exchange_copy(h) == [taken |-> h, left |-> h]
exchange(h) == [taken |-> h, left |-> NoTask]

\* History: the operation applied last to a task object a (and b, the
\* source of a move), the frame it destroyed and the exception it raised.
TaskOp(op, a, b, freed, exc) ==
  [op |-> op, a |-> a, b |-> b, freed |-> freed, exc |-> exc]

NoTaskObjects ==
  [obj |-> [a \in ObjIds |-> NoTaskObject],
   frees |-> [t \in TaskIds |-> 0],
   last |-> TaskOp("none", NoObj, NoObj, NoTask, NoExc)]

\* `if (handle_) handle_.destroy();` on handle h.  Destroying a frame that
\* was destroyed already is undefined behaviour.
DestroyIfOwned(h) ==
  IF h = NoTask THEN UNCHANGED <<task, errno_, ub>>
  ELSE IF task[h].pc = "destroyed"
    THEN /\ ub' = TRUE
         /\ UNCHANGED <<task, errno_>>
    ELSE /\ task' = [task EXCEPT ![h] = [AbsentTask EXCEPT !.pc = "destroyed"]]
         /\ errno_' = ErrnoAfterResume(task[h])
         /\ ub' = ub

Freed(h) == IF h = NoTask THEN tobj.frees
            ELSE [tobj.frees EXCEPT ![h] = @ + 1]

\* `task<...> a = acceptor.async_accept();`: the coroutine is created, at
\* initial_suspend, and get_return_object hands its handle to the task.
TaskCreate(a) ==
  /\ Idle
  /\ ~tobj.obj[a].alive
  /\ \E t \in TaskIds :
       /\ IsFreeTask(t)
       /\ IF initial_suspend = "suspend_never"
            THEN /\ task' = [task EXCEPT ![t] = Resumed(NewTask("accept", 0))]
                 /\ thread' = [op |-> "create", arg |-> NoTask, run |-> t]
            ELSE /\ task' = [task EXCEPT ![t] = NewTask("accept", 0)]
                 /\ thread' = thread
       /\ tobj' = [tobj EXCEPT !.obj[a] = task_from(t),
                               !.last = TaskOp("create", a, NoObj, NoTask, NoExc)]
  /\ lastCall' = "none"
  /\ UNCHANGED <<sockVars, accVars, connVars, errno_, driverExc, ub>>

\* `task<...> a;`
TaskDefault(a) ==
  /\ Idle
  /\ ~tobj.obj[a].alive
  /\ tobj' = [tobj EXCEPT !.obj[a] = task_default,
                          !.last = TaskOp("default", a, NoObj, NoTask, NoExc)]
  /\ lastCall' = "none"
  /\ UNCHANGED <<sockVars, accVars, connVars, task, errno_, thread,
                 driverExc, ub>>

\* `task<...> a(std::move(b));`
TaskMoveConstruct(a, b) ==
  /\ Idle
  /\ a # b
  /\ ~tobj.obj[a].alive
  /\ tobj.obj[b].alive
  /\ LET x == exchange(tobj.obj[b].handle_) IN
     tobj' = [tobj EXCEPT !.obj[a] = task_from(x.taken),
                          !.obj[b].handle_ = x.left,
                          !.last = TaskOp("move", a, b, NoTask, NoExc)]
  /\ lastCall' = "none"
  /\ UNCHANGED <<sockVars, accVars, connVars, task, errno_, thread,
                 driverExc, ub>>

\* `a = std::move(b);`
TaskMoveAssign(a, b) ==
  /\ Idle
  /\ tobj.obj[a].alive
  /\ tobj.obj[b].alive
  /\ lastCall' = "none"
  /\ IF a = b
       THEN /\ tobj' = [tobj EXCEPT
                          !.last = TaskOp("assign", a, b, NoTask, NoExc)]
            /\ UNCHANGED <<task, errno_, ub>>
       ELSE LET h == tobj.obj[a].handle_
                x == exchange(tobj.obj[b].handle_)
            IN /\ DestroyIfOwned(h)
               /\ tobj' = [tobj EXCEPT
                             !.obj[a].handle_ = x.taken,
                             !.obj[b].handle_ = x.left,
                             !.frees = Freed(h),
                             !.last = TaskOp("assign", a, b, h, NoExc)]
  /\ UNCHANGED <<sockVars, accVars, connVars, thread, driverExc>>

\* ~task() of task object a.
TaskDestructor(a) ==
  /\ Idle
  /\ tobj.obj[a].alive
  /\ LET h == tobj.obj[a].handle_ IN
     /\ DestroyIfOwned(h)
     /\ tobj' = [tobj EXCEPT !.obj[a] = NoTaskObject,
                             !.frees = Freed(h),
                             !.last = TaskOp("destroy", a, NoObj, h, NoExc)]
  /\ lastCall' = "none"
  /\ UNCHANGED <<sockVars, accVars, connVars, thread, driverExc>>

\* a.get().  On a handle whose frame was destroyed, handle_.done() reads
\* freed storage.
TaskGet(a) ==
  /\ Idle
  /\ tobj.obj[a].alive
  /\ lastCall' = "none"
  /\ LET h == tobj.obj[a].handle_ IN
     IF h = NoTask
       THEN /\ tobj' = [tobj EXCEPT
                          !.last = TaskOp("get", a, NoObj, NoTask,
                                          runtime_error("invalid task"))]
            /\ UNCHANGED <<task, thread, errno_, ub>>
     ELSE IF task[h].pc = "destroyed"
       THEN /\ ub' = TRUE
            /\ tobj' = [tobj EXCEPT
                          !.last = TaskOp("get", a, NoObj, NoTask, NoExc)]
            /\ UNCHANGED <<task, thread, errno_>>
       ELSE /\ task[h].pc # "done" => ~task[h].continuation
            /\ Len(task[h].delivered) < MaxGets
            /\ GetPass(h, TRUE)
            /\ tobj' = [tobj EXCEPT
                          !.last = TaskOp("get", a, NoObj, NoTask, NoExc)]
            /\ ub' = ub
  /\ UNCHANGED <<sockVars, accVars, connVars, driverExc>>

\* task::await_ready() on a task object whose handle_ is h.
await_ready(h) == h = NoTask \/ task[h].pc = "done"

\* A coroutine of the application evaluates `co_await a` on task object a.
\* When await_ready() is true, await_suspend is skipped and await_resume
\* runs at once; its first statement is handle_.promise().  On an empty
\* handle that is undefined: the access crashes, or the stray promise reads
\* as holding no exception and the call returns.
TaskAwait(a) ==
  /\ Idle
  /\ tobj.obj[a].alive
  /\ lastCall' = "none"
  /\ LET h == tobj.obj[a].handle_ IN
     IF h # NoTask /\ task[h].pc = "destroyed"
       THEN /\ ub' = TRUE
            /\ tobj' = [tobj EXCEPT
                          !.last = TaskOp("await_ready", a, NoObj, NoTask,
                                          NoExc)]
            /\ UNCHANGED <<task, thread>>
     ELSE IF await_ready(h)
       THEN /\ tobj' = [tobj EXCEPT
                          !.last = TaskOp("await_resume", a, NoObj, NoTask,
                                          NoExc)]
            /\ thread' = thread
            /\ IF h = NoTask
                 THEN /\ ub' \in BOOLEAN
                      /\ task' = task
                 ELSE /\ Len(task[h].delivered) < MaxGets
                      /\ ub' = ub
                      /\ task' = [task EXCEPT ![h] =
                                    Deliver(await_resume(Driven(task[h],
                                                                TRUE)))]
       ELSE /\ task[h].pc = "init"
            /\ ~task[h].continuation
            /\ tobj' = [tobj EXCEPT
                          !.last = TaskOp("await_suspend", a, NoObj, NoTask,
                                          NoExc)]
            /\ task' = [task EXCEPT ![h] =
                          [Resumed(Driven(task[h], TRUE))
                             EXCEPT !.continuation = TRUE]]
            /\ thread' = [op |-> "await", arg |-> NoTask, run |-> h]
            /\ ub' = ub
  /\ UNCHANGED <<sockVars, accVars, connVars, errno_, driverExc>>

---------------------------------------------------------------------------
(* The synchronous layer: Socket objects and the descriptors they own *)

SockIds == 1..MaxSocks
FdIds   == 3..(2 + MaxFds)     \* 0, 1 and 2 are the standard streams
Invalid == -1                  \* SocketDescriptorHandle::Invalid
NoSock  == 0                   \* no second operand

\* SocketDescriptorHandle::isValid()
isValid(h) == h # Invalid

\* A Socket object: alive is FALSE before construction and after destruction.
NoObject ==
  [alive |-> FALSE, handle_ |-> Invalid, address_family_ |-> "IPV4",
   socket_type_ |-> "Stream", protocol_type_ |-> "TCP",
   blocking_ |-> "Blocking", inheritable_ |-> "Inheritable"]

\* The five configuration members of a Socket.
Config(o) == <<o.address_family_, o.socket_type_, o.protocol_type_,
               o.blocking_, o.inheritable_>>

Families     == {"IPV4", "IPV6"}
BlockingType == {"Blocking", "NonBlocking"}
Inheritance  == {"Inheritable", "NonInheritable"}

\* Socket::is_valid()
is_valid(o) == isValid(o.handle_)

\* A slot of the kernel's descriptor table.
\*   state   unconnected, bound, listening, connected
\*   qlen    the backlog argument of the ::listen that made it listening
ClosedFd == [open |-> FALSE, nonblock |-> FALSE, cloexec |-> FALSE,
             family |-> "IPV4", state |-> "closed", qlen |-> 0,
             shut |-> "none"]

FreeFds(k) == {h \in FdIds : ~k[h].open}
LowestFree(k) == CHOOSE h \in FreeFds(k) : \A g \in FreeFds(k) : h <= g

\* ::socket(family, type | SOCK_NONBLOCK | SOCK_CLOEXEC, protocol) under the
\* kernel's answer intr (see Faults); the table being full is EMFILE.
OsSocket(k, intr) ==
  IF intr > 0 \/ intr < -1 THEN [ret |-> Invalid, err |-> "EINTR"]
  ELSE IF intr = -1 \/ FreeFds(k) = {} THEN [ret |-> Invalid, err |-> "EMFILE"]
  ELSE [ret |-> LowestFree(k), err |-> "OK"]

\* The object the protected constructor Socket(handle, ...) builds.
Socket(h, family, blocking, inheritable) ==
  [alive |-> TRUE, handle_ |-> h, address_family_ |-> family,
   socket_type_ |-> "Stream", protocol_type_ |-> "TCP",
   blocking_ |-> blocking, inheritable_ |-> inheritable]

\* Socket::Socket(family, Stream, TCP, blocking, inheritable): the creating
\* constructor.  kind "socket": handle h was created; "throw": system_error.
RECURSIVE Socket_ctor(_, _)
Socket_ctor(k, intr) ==
  LET r == OsSocket(k, intr) IN
  IF isValid(r.ret)
    THEN [kind |-> "socket", h |-> r.ret, exc |-> NoExc, errno |-> "OK"]
  ELSE IF is_interrupted(r.err) THEN Socket_ctor(k, NextTry(intr))
  ELSE [kind |-> "throw", h |-> Invalid, exc |-> system_error(r.err),
        errno |-> r.err]

\* ::close(h) in descriptor table k: EBADF, and no effect, unless h is open.
OsClose(k, h) ==
  IF h \in FdIds /\ k[h].open THEN [k EXCEPT ![h] = ClosedFd] ELSE k

\* SocketDescriptorHandle::releaseHandle(): <<the handle given away, the
\* value left behind>>.
releaseHandle_keep(h) == <<h, h>>
releaseHandle(h) == <<h, Invalid>>

\* Socket::close(): the object afterwards.
Socket_close_keep(o) == o
Socket_closed(o) == [o EXCEPT !.handle_ = Invalid]

\* The record of a synchronous call: the operation, whether the object it
\* was called on held a descriptor on entry (for a move: the source), and
\* how the call ended ("ok", "throw", "empty": accept's sentinel).  For
\* send, receive and accept also: the object's blocking_ member, whether
\* the kernel's last answer was would-block, and the byte count returned.
\* what is the exception's code or message; oserr is the error code of the
\* OS call whose hard failure ended the call, "OK" if none did; sys is the
\* direction the call passed to ::shutdown, "none" if it did not call it.
Call(op, i, j, h, res, exc) ==
  [op |-> op, valid |-> isValid(h), res |-> res, exc |-> exc.type,
   cfg |-> "none", wb |-> FALSE, n |-> 0, what |-> exc.what, oserr |-> "OK",
   sys |-> "none"]
OsFailed(call, err) == [call EXCEPT !.oserr = err]
IoCall(op, o, r) ==
  [op |-> op, valid |-> is_valid(o),
   res |-> IF r.kind = "ret" \/ r.kind = "socket" THEN "ok"
           ELSE IF r.kind = "empty" THEN "empty" ELSE "throw",
   exc |-> r.exc.type, cfg |-> o.blocking_, wb |-> is_would_block(r.errno),
   n |-> IF r.kind = "ret" THEN r.n ELSE 0,
   what |-> r.exc.what,
   oserr |-> IF r.kind = "throw" /\ ("os" \notin DOMAIN r \/ r.os = "error")
               THEN r.errno ELSE "OK",
   sys |-> "none"]
NoCall == Call("none", NoSock, NoSock, Invalid, "ok", NoExc)

\* The clients waiting in the queue of the listening descriptor are reset
\* when that descriptor is closed.
Listening(k) == {h \in FdIds : k[h].open /\ k[h].state = "listening"}
BacklogAfter(k) == IF Listening(k) = {} THEN <<>> ELSE backlog

asyncUnchanged == UNCHANGED <<acc, made, connVars, task, errno_, thread,
                              lastCall, driverExc, ub, pipe, tobj>>

\* The configurations a TcpSocket can be constructed with, and two of them
\* that differ in every member.
AllConfigs == Families \X BlockingType \X Inheritance
TwoConfigs == {<<"IPV4", "Blocking", "Inheritable">>,
               <<"IPV6", "NonBlocking", "NonInheritable">>}

\* TcpSocket s(family, blocking, inheritable); with the configuration drawn
\* from cfgs.
Construct(i, cfgs) ==
  /\ ~socks[i].alive
  /\ \E cfg \in cfgs, intr \in Faults :
       LET r == Socket_ctor(fds, intr)
           f == cfg[1]
           b == cfg[2]
           inh == cfg[3]
       IN
       IF r.kind = "socket"
         THEN /\ socks' = [socks EXCEPT ![i] = Socket(r.h, f, b, inh)]
              /\ fds' = [fds EXCEPT ![r.h] =
                           [open |-> TRUE, nonblock |-> (b = "NonBlocking"),
                            cloexec |-> (inh = "NonInheritable"),
                            family |-> f, state |-> "unconnected",
                            qlen |-> 0, shut |-> "none"]]
              /\ hist' = Call("ctor", i, NoSock, Invalid, "ok", NoExc)
         ELSE /\ hist' = OsFailed(Call("ctor", i, NoSock, Invalid, "throw",
                                      r.exc), r.errno)
              /\ UNCHANGED <<socks, fds>>
  /\ backlog' = BacklogAfter(fds')
  /\ UNCHANGED nclients
  /\ asyncUnchanged

\* The member assignments of Socket::operator=(Socket &&other): o takes
\* other's configuration and the handle h that other released.
assign_from_noBlocking(o, other, h) ==
  [o EXCEPT !.address_family_ = other.address_family_,
            !.socket_type_ = other.socket_type_,
            !.protocol_type_ = other.protocol_type_,
            !.inheritable_ = other.inheritable_,
            !.handle_ = h]
assign_from(o, other, h) ==
  [o EXCEPT !.address_family_ = other.address_family_,
            !.socket_type_ = other.socket_type_,
            !.protocol_type_ = other.protocol_type_,
            !.blocking_ = other.blocking_,
            !.inheritable_ = other.inheritable_,
            !.handle_ = h]

\* Socket b(std::move(a)): the move constructor.
MoveConstruct(a, b) ==
  /\ socks[a].alive /\ ~socks[b].alive
  /\ LET rel == releaseHandle(socks[a].handle_) IN
     socks' = [socks EXCEPT
                 ![b] = [socks[a] EXCEPT !.handle_ = rel[1]],
                 ![a] = [@ EXCEPT !.handle_ = rel[2]]]
  /\ hist' = Call("move_ctor", b, a, socks[a].handle_, "ok", NoExc)
  /\ UNCHANGED <<fds, backlog, nclients>>
  /\ asyncUnchanged

\* b = std::move(a): the move assignment, self-assignment included.
MoveAssign_noClose(a, b) ==
  /\ socks[a].alive /\ socks[b].alive
  /\ IF a # b
       THEN LET rel == releaseHandle(socks[a].handle_) IN
            /\ fds' = fds
            /\ socks' = [socks EXCEPT
                 ![b] = assign_from(socks[b], socks[a], rel[1]),
                 ![a] = [@ EXCEPT !.handle_ = rel[2]]]
       ELSE UNCHANGED <<socks, fds>>
  /\ hist' = Call("move_assign", b, a, socks[a].handle_, "ok", NoExc)
  /\ backlog' = BacklogAfter(fds')
  /\ UNCHANGED nclients
  /\ asyncUnchanged
MoveAssign(a, b) ==
  /\ socks[a].alive /\ socks[b].alive
  /\ IF a # b
       THEN LET rel == releaseHandle(socks[a].handle_)
                closed == Socket_closed(socks[b])
            IN
            /\ fds' = OsClose(fds, socks[b].handle_)
            /\ socks' = [socks EXCEPT
                 ![b] = assign_from(closed, socks[a], rel[1]),
                 ![a] = [@ EXCEPT !.handle_ = rel[2]]]
       ELSE UNCHANGED <<socks, fds>>
  /\ hist' = Call("move_assign", b, a, socks[a].handle_, "ok", NoExc)
  /\ backlog' = BacklogAfter(fds')
  /\ UNCHANGED nclients
  /\ asyncUnchanged

\* s.close()
Close(i) ==
  /\ socks[i].alive
  /\ fds' = OsClose(fds, socks[i].handle_)
  /\ socks' = [socks EXCEPT ![i] = Socket_closed(@)]
  /\ hist' = Call("close", i, NoSock, socks[i].handle_, "ok", NoExc)
  /\ backlog' = BacklogAfter(fds')
  /\ UNCHANGED nclients
  /\ asyncUnchanged

\* ~Socket(): close(), and the object is gone.
Destroy(i) ==
  /\ socks[i].alive
  /\ fds' = OsClose(fds, socks[i].handle_)
  /\ socks' = [socks EXCEPT ![i] = NoObject]
  /\ hist' = Call("dtor", i, NoSock, socks[i].handle_, "ok", NoExc)
  /\ backlog' = BacklogAfter(fds')
  /\ UNCHANGED nclients
  /\ asyncUnchanged

\* What the kernel and the raw calls see of object o: whether its handle
\* names an open descriptor, and the descriptor's O_NONBLOCK flag next to
\* the object's own blocking_ member.
View(o, k) ==
  LET open == is_valid(o) /\ k[o.handle_].open IN
  [valid |-> open, family |-> o.address_family_, blocking |-> o.blocking_,
   osNonblock |-> open /\ k[o.handle_].nonblock]

\* The listening descriptor as ::accept sees it: the kernel consults
\* O_NONBLOCK, not the object.
KernelView(o, k) ==
  LET v == View(o, k) IN
  [v EXCEPT !.blocking = IF v.osNonblock THEN "NonBlocking" ELSE "Blocking"]

\* The connection state of o's descriptor for ::send, ::recv and ::connect.
FdState(o, k) ==
  IF ~View(o, k).valid THEN "unconnected"
  ELSE IF k[o.handle_].state \in {"connected", "inprogress"}
    THEN k[o.handle_].state ELSE "unconnected"

\* A descriptor without a modelled peer: nothing to read, and the given
\* free space in the send buffer.
QuietPeer(o, k, space) ==
  [state |-> FdState(o, k), rx |-> 0, peerShut |-> FALSE, txSpace |-> space]

\* TcpSocket(sock, AddressFamily::IPV4, BlockingType::NonBlocking,
\* inheritable()): the object accept returns around descriptor h.
AcceptedTcpSocket_listenerMode(l, h) ==
  Socket(h, "IPV4", l.blocking_, l.inheritable_)
AcceptedTcpSocket(l, h) ==
  Socket(h, "IPV4", "NonBlocking", l.inheritable_)

\* TcpSocket(nullptr): the empty socket accept returns as its sentinel.
TcpSocket_nullptr == Socket(Invalid, "IPV4", "Blocking", "Inheritable")

\* TcpSocket::accept(peer) on object l with the descriptor table k: ::accept
\* fails with EINVAL on a descriptor that is not listening and with EMFILE
\* when the table is full.
AcceptOn(l, k, intr) ==
  LET v == KernelView(l, k) IN
  IF v.valid /\ k[l.handle_].state # "listening"
    THEN [kind |-> "throw", errno |-> "EINVAL", exc |-> system_error("EINVAL")]
  ELSE IF v.valid /\ FreeFds(k) = {} /\ intr = 0 /\ backlog # <<>>
    THEN TcpSocket_accept(v, -1, errno_)
    ELSE TcpSocket_accept(v, intr, errno_)

\* TcpSocket c = l.accept(peer);
Accept(l, j) ==
  /\ socks[l].alive /\ ~socks[j].alive
  /\ \E intr \in Faults :
       LET r == AcceptOn(socks[l], fds, intr)
           h == LowestFree(fds)
       IN
       /\ r.kind # "block"
       /\ IF r.kind = "socket"
            THEN /\ socks' = [socks EXCEPT
                                ![j] = AcceptedTcpSocket(socks[l], h)]
                 /\ fds' = [fds EXCEPT ![h] =
                              [open |-> TRUE, nonblock |-> FALSE,
                               cloexec |-> FALSE,
                               family |-> fds[socks[l].handle_].family,
                               state |-> "connected", qlen |-> 0,
                               shut |-> "none"]]
                 /\ backlog' = Tail(backlog)
                 /\ hist' = IoCall("accept", socks[l], r)
          ELSE IF r.kind = "empty"
            THEN /\ socks' = [socks EXCEPT ![j] = TcpSocket_nullptr]
                 /\ hist' = IoCall("accept", socks[l], r)
                 /\ UNCHANGED <<fds, backlog>>
            ELSE /\ hist' = IoCall("accept", socks[l], r)
                 /\ UNCHANGED <<socks, fds, backlog>>
  /\ UNCHANGED nclients
  /\ asyncUnchanged

\* ::bind on a descriptor in state st, while the endpoint is or is not in use:
\* the error code, "OK" if the call succeeds.
OsBind(st, inUse) ==
  IF st # "unconnected" THEN "EINVAL"
  ELSE IF inUse THEN "EADDRINUSE" ELSE "OK"

\* s.bind(ep): the model has one endpoint, which one descriptor can hold.
Bind(i) ==
  /\ socks[i].alive
  /\ LET o == socks[i]
         h == o.handle_
         inUse == \E g \in FdIds :
                    fds[g].open /\ fds[g].state \in {"bound", "listening"}
     IN
     IF ~is_valid(o)
       THEN /\ hist' = Call("bind", i, NoSock, h, "throw",
                            logic_error("bind on invalid socket"))
            /\ UNCHANGED fds
     ELSE IF fds[h].state # "unconnected"
       THEN /\ hist' = OsFailed(Call("bind", i, NoSock, h, "throw",
                                     system_error("EINVAL")),
                                OsBind(fds[h].state, inUse))
            /\ UNCHANGED fds
     ELSE IF inUse
       THEN /\ hist' = OsFailed(Call("bind", i, NoSock, h, "throw",
                                     system_error("EADDRINUSE")),
                                OsBind(fds[h].state, inUse))
            /\ UNCHANGED fds
       ELSE /\ hist' = Call("bind", i, NoSock, h, "ok", NoExc)
            /\ fds' = [fds EXCEPT ![h].state = "bound"]
  /\ UNCHANGED <<socks, backlog, nclients>>
  /\ asyncUnchanged

\* TcpSocket::listen on a socket whose descriptor is in the given state.
TcpSocket_listen_quiet(valid, state) ==
  IF ~valid \/ state \in {"bound", "listening"}
    THEN [kind |-> "ret", exc |-> NoExc,
          state |-> IF valid THEN "listening" ELSE state]
    ELSE [kind |-> "throw", exc |-> system_error("EINVAL"), state |-> state]
TcpSocket_listen(valid, state) ==
  IF ~valid
    THEN [kind |-> "throw", exc |-> logic_error("listen on invalid socket"),
          state |-> state]
  ELSE IF state \in {"bound", "listening"}
    THEN [kind |-> "ret", exc |-> NoExc, state |-> "listening"]
    ELSE [kind |-> "throw", exc |-> system_error("EINVAL"), state |-> state]

\* ::listen on an open descriptor in the given state: the error code, "OK"
\* if the call succeeds.
OsListenErr(valid, state) ==
  IF valid /\ state \notin {"bound", "listening"} THEN "EINVAL" ELSE "OK"

\* The default argument of listen, the platform's maximum (<sys/socket.h>).
SOMAXCONN == 4096

\* The descriptor table after ::listen(h, qlen) succeeded.
OsListen(k, h, qlen) == [k EXCEPT ![h].state = "listening", ![h].qlen = qlen]

\* s.listen(): on an empty socket, or on a descriptor that is bound or
\* connected (a listener on an ephemeral port has no client here).
Listen(i) ==
  /\ socks[i].alive
  /\ LET o == socks[i]
         h == o.handle_
         st == IF is_valid(o) THEN fds[h].state ELSE "closed"
         r == TcpSocket_listen(is_valid(o), st)
     IN
     /\ st # "unconnected"
     /\ hist' = OsFailed(Call("listen", i, NoSock, h,
                              IF r.kind = "ret" THEN "ok" ELSE "throw",
                              r.exc),
                         OsListenErr(is_valid(o), st))
     /\ fds' = IF r.kind = "ret" THEN OsListen(fds, h, SOMAXCONN) ELSE fds
  /\ UNCHANGED <<socks, backlog, nclients>>
  /\ asyncUnchanged

\* The socket object that is the TcpAcceptor's socket_ member.
AcceptorSocket == 1

\* Backlog arguments a caller passes to TcpAcceptor::listen.
Backlogs == {1, 2, SOMAXCONN}

\* TcpAcceptor::listen(backlog): the argument it passes to socket_.listen.
TcpAcceptor_listen(b) == SOMAXCONN

\* acceptor.listen(b).
AcceptorListen ==
  /\ socks[AcceptorSocket].alive
  /\ \E b \in Backlogs :
       LET o == socks[AcceptorSocket]
           h == o.handle_
           st == IF is_valid(o) THEN fds[h].state ELSE "closed"
           r == TcpSocket_listen(is_valid(o), st)
       IN
       /\ st # "unconnected"
       /\ hist' = [Call("acceptor.listen", AcceptorSocket, NoSock, h,
                        IF r.kind = "ret" THEN "ok" ELSE "throw", r.exc)
                     EXCEPT !.n = b,
                            !.oserr = OsListenErr(is_valid(o), st)]
       /\ fds' = IF r.kind = "ret"
                   THEN OsListen(fds, h, TcpAcceptor_listen(b)) ELSE fds
  /\ UNCHANGED <<socks, backlog, nclients>>
  /\ asyncUnchanged

\* s.connect(ep) towards an endpoint that accepts or refuses.
Connect(i) ==
  /\ socks[i].alive
  /\ LET o == socks[i]
         h == o.handle_
     IN
     /\ is_valid(o) => fds[h].state \in {"unconnected", "inprogress",
                                         "connected"}
     /\ \E intr \in 0..MaxIntr, refused \in BOOLEAN :
          LET r == TcpSocket_connect(View(o, fds), FdState(o, fds), intr,
                                     refused, errno_)
          IN
          /\ hist' = OsFailed(Call("connect", i, NoSock, h,
                                   IF r.kind = "ret" THEN "ok" ELSE "throw",
                                   r.exc),
                              IF r.kind = "throw" /\ is_valid(o)
                                THEN r.errno ELSE "OK")
          /\ fds' = IF is_valid(o) THEN [fds EXCEPT ![h].state = r.state]
                                   ELSE fds
  /\ UNCHANGED <<socks, backlog, nclients>>
  /\ asyncUnchanged

\* s.send(data) and s.receive(buffer) with one byte, on a descriptor whose
\* peer is silent; the free space of the kernel's send buffer is an input.
Send(i) ==
  /\ socks[i].alive
  /\ \E intr \in Faults, space \in 0..MaxTx :
       LET r == raw_send(View(socks[i], fds),
                         QuietPeer(socks[i], fds, space), 1, intr, 1, errno_)
       IN
       /\ r.kind # "block"
       /\ hist' = IoCall("send", socks[i], r)
  /\ UNCHANGED <<socks, fds, backlog, nclients>>
  /\ asyncUnchanged

Receive(i) ==
  /\ socks[i].alive
  /\ \E intr \in Faults :
       LET r == raw_recv(View(socks[i], fds),
                         QuietPeer(socks[i], fds, 0), 1, intr, 1, errno_)
       IN
       /\ r.kind # "block"
       /\ hist' = IoCall("receive", socks[i], r)
  /\ UNCHANGED <<socks, fds, backlog, nclients>>
  /\ asyncUnchanged

\* s.localEndpoint()
LocalEndpoint(i) ==
  /\ socks[i].alive
  /\ hist' = IF is_valid(socks[i])
               THEN Call("local_endpoint", i, NoSock, socks[i].handle_, "ok",
                         NoExc)
               ELSE Call("local_endpoint", i, NoSock, socks[i].handle_,
                         "throw",
                         logic_error("localEndpoint on invalid socket"))
  /\ UNCHANGED <<socks, fds, backlog, nclients>>
  /\ asyncUnchanged

\* ::fcntl on the descriptor of object o: EBADF unless it is open; on an
\* open descriptor the kernel's answer is an input (EBADF: the descriptor was
\* closed and not yet reused behind the object, through native_handle()).
FcntlAnswers == {"OK", "EBADF"}
OsFcntl(o, k, answer) == IF View(o, k).valid THEN answer ELSE "EBADF"

\* Socket::setBlocking(mode) on object o with descriptor table k; getfl and
\* setfl are the results of the two fcntl calls.
Socket_setBlocking(o, k, mode, getfl, setfl) ==
  IF getfl # "OK"
    THEN [kind |-> "throw", o |-> o, k |-> k, errno |-> getfl,
          exc |-> runtime_error("fcntl(F_GETFL) failed")]
  ELSE IF setfl # "OK"
    THEN [kind |-> "throw", o |-> o, k |-> k, errno |-> setfl,
          exc |-> system_error(setfl)]
  ELSE [kind |-> "ret", errno |-> "OK", exc |-> NoExc,
        o |-> [o EXCEPT !.blocking_ = mode],
        k |-> [k EXCEPT ![o.handle_].nonblock = (mode = "NonBlocking")]]

\* Socket::setInheritable(inh), likewise with F_GETFD and F_SETFD.
Socket_setInheritable(o, k, inh, getfd, setfd) ==
  IF getfd # "OK"
    THEN [kind |-> "throw", o |-> o, k |-> k, errno |-> getfd,
          exc |-> system_error(getfd)]
  ELSE IF setfd # "OK"
    THEN [kind |-> "throw", o |-> o, k |-> k, errno |-> setfd,
          exc |-> system_error(setfd)]
  ELSE [kind |-> "ret", errno |-> "OK", exc |-> NoExc,
        o |-> [o EXCEPT !.inheritable_ = inh],
        k |-> [k EXCEPT ![o.handle_].cloexec = (inh = "NonInheritable")]]

\* The call record of a setter that ended as r says.
SetterCall(op, i, r) ==
  OsFailed(Call(op, i, NoSock, socks[i].handle_,
                IF r.kind = "ret" THEN "ok" ELSE "throw", r.exc),
           IF r.kind = "throw" THEN r.errno ELSE "OK")

\* s.setBlocking(mode), as a class derived from Socket or the acceptor
\* calls it.
SetBlocking(i) ==
  /\ socks[i].alive
  /\ \E mode \in BlockingType, a, b \in FcntlAnswers :
       LET o == socks[i]
           r == Socket_setBlocking(o, fds, mode, OsFcntl(o, fds, a),
                                   OsFcntl(o, fds, b))
       IN
       /\ socks' = [socks EXCEPT ![i] = r.o]
       /\ fds' = r.k
       /\ hist' = [SetterCall("setBlocking", i, r) EXCEPT !.cfg = mode]
  /\ UNCHANGED <<backlog, nclients>>
  /\ asyncUnchanged

\* s.setInheritable(inh)
SetInheritable(i) ==
  /\ socks[i].alive
  /\ \E inh \in Inheritance, a, b \in FcntlAnswers :
       LET o == socks[i]
           r == Socket_setInheritable(o, fds, inh, OsFcntl(o, fds, a),
                                      OsFcntl(o, fds, b))
       IN
       /\ socks' = [socks EXCEPT ![i] = r.o]
       /\ fds' = r.k
       /\ hist' = SetterCall("setInheritable", i, r)
  /\ UNCHANGED <<backlog, nclients>>
  /\ asyncUnchanged

\* The directions of SocketFlags::ShutdownType.
ShutdownType == {"Sending", "Receiving", "Both"}

\* ::shutdown(h, how) in descriptor table k: ENOTCONN unless h is connected.
OsShutdown(k, h, how) ==
  IF k[h].open /\ k[h].state = "connected"
    THEN [err |-> "OK",
          k |-> [k EXCEPT ![h].shut =
                   IF @ = "none" \/ @ = how THEN how ELSE "Both"]]
    ELSE [err |-> IF k[h].open THEN "ENOTCONN" ELSE "EBADF", k |-> k]

\* Socket::shutdown(how) on object o.  sys: the direction handed to
\* ::shutdown, "none" if the OS was not called.
Socket_shutdown_unchecked(o, k, how) ==
  LET r == IF isValid(o.handle_) THEN OsShutdown(k, o.handle_, how)
                                 ELSE [err |-> "EBADF", k |-> k]
  IN
  IF r.err = "OK"
    THEN [kind |-> "ret", k |-> r.k, errno |-> "OK", exc |-> NoExc,
          sys |-> how]
    ELSE [kind |-> "throw", k |-> k, errno |-> r.err,
          exc |-> system_error(r.err), sys |-> how]
Socket_shutdown(o, k, how) ==
  IF ~isValid(o.handle_)
    THEN [kind |-> "ret", k |-> k, errno |-> "OK", exc |-> NoExc,
          sys |-> "none"]
  ELSE LET r == OsShutdown(k, o.handle_, how) IN
    IF r.err = "OK"
      THEN [kind |-> "ret", k |-> r.k, errno |-> "OK", exc |-> NoExc,
            sys |-> how]
      ELSE [kind |-> "throw", k |-> k, errno |-> r.err,
            exc |-> system_error(r.err), sys |-> how]

\* s.shutdown(how)
Shutdown(i) ==
  /\ socks[i].alive
  /\ \E how \in ShutdownType :
       LET o == socks[i]
           r == Socket_shutdown(o, fds, how)
       IN
       /\ fds' = r.k
       /\ hist' = [SetterCall("shutdown", i, r) EXCEPT !.sys = r.sys]
  /\ UNCHANGED <<socks, backlog, nclients>>
  /\ asyncUnchanged

\* A client completes the TCP handshake with the listening descriptor.
PeerConnects ==
  /\ Listening(fds) # {}
  /\ nclients < MaxClients
  /\ nclients' = nclients + 1
  /\ backlog' = Append(backlog, nclients + 1)
  /\ UNCHANGED <<tobj, sockVars, acc, made, connVars, task, errno_, thread,
                 lastCall, driverExc, ub>>

\* The handshake a non-blocking connect started completes.
HandshakeCompletes ==
  /\ \E h \in FdIds :
       /\ fds[h].open /\ fds[h].state = "inprogress"
       /\ fds' = [fds EXCEPT ![h].state = "connected"]
  /\ UNCHANGED <<socks, hist, pipe, accVars, connVars, task, errno_, thread,
                 lastCall, driverExc, ub, tobj>>

NoPipe == [buf |-> <<>>, sent |-> <<>>, rcvd |-> <<>>, off |-> 0]

NoSockets ==
  /\ socks = [i \in SockIds |-> NoObject]
  /\ fds = [h \in FdIds |-> ClosedFd]
  /\ hist = NoCall
  /\ pipe = NoPipe

---------------------------------------------------------------------------
(* The environment of the acceptor *)

\* A client completes the TCP handshake with the listening endpoint.
ClientConnect ==
  /\ ~ub
  /\ acc.valid
  /\ nclients < MaxClients
  /\ nclients' = nclients + 1
  /\ backlog' = Append(backlog, nclients + 1)
  /\ UNCHANGED <<tobj, sockVars, acc, made, connVars, task, errno_, thread,
                 lastCall, driverExc, ub>>

---------------------------------------------------------------------------
(* The acceptor's specification *)

\* TcpAcceptor(AddressFamily) builds a TcpSocket with the default blocking
\* mode, Blocking; TcpAcceptor(TcpSocket) wraps a socket of either mode.  The
\* acceptor is bound and listening.
InitAcceptor ==
  /\ acc \in {[valid |-> TRUE, blocking |-> b, fromFamily |-> f,
               accept_awaiting_ |-> NoTask] :
                 b \in {"Blocking", "NonBlocking"}, f \in BOOLEAN}
  /\ acc.fromFamily => acc.blocking = "Blocking"
  /\ backlog = <<>>
  /\ nclients = 0
  /\ made = [c \in ClientIds |-> NoConnection]

InitTasks ==
  /\ task = [t \in TaskIds |-> AbsentTask]
  /\ tobj = NoTaskObjects
  /\ thread = [op |-> "idle", arg |-> NoTask, run |-> NoTask]
  /\ lastCall = "none"
  /\ driverExc = FALSE
  /\ ub = FALSE

InitCommon ==
  /\ InitTasks
  /\ errno_ = "OK"

Init ==
  /\ InitAcceptor
  /\ InitCommon
  /\ NoSockets
  /\ conn = NoConnection
  /\ net = 0

Next ==
  \/ CreateAccept
  \/ \E t \in TaskIds : GetCall(t)
  \/ GetLoop
  \/ \E t \in TaskIds : Await(t)
  \/ \E t \in TaskIds : DestroyTask(t)
  \/ \E t \in TaskIds : AsyncAcceptIter(t)
  \/ AcceptorNotifyReadable
  \/ AcceptorClose
  \/ ClientConnect

Spec == Init /\ [][Next]_vars

---------------------------------------------------------------------------
(* The environment of the connection: its peer and the kernel *)

envUnchanged == UNCHANGED <<tobj, sockVars, accVars, conn, task, errno_, thread, lastCall,
                            driverExc, ub>>

\* The peer sends one more byte; the kernel's receive buffer holds MaxRx.
PeerSend ==
  /\ ~ub
  /\ net.state = "connected" /\ ~net.peerShut
  /\ net.rx < MaxRx
  /\ net' = [net EXCEPT !.rx = @ + 1]
  /\ envUnchanged

\* The peer shuts down its sending direction (FIN).
PeerShutdown ==
  /\ ~ub
  /\ net.state = "connected" /\ ~net.peerShut
  /\ net' = [net EXCEPT !.peerShut = TRUE]
  /\ envUnchanged

\* The peer reads: the kernel's send buffer gets room again.
PeerDrain ==
  /\ ~ub
  /\ net.state = "connected"
  /\ net.txSpace < MaxTx
  /\ net' = [net EXCEPT !.txSpace = @ + 1]
  /\ envUnchanged

\* The handshake of a connect in progress completes.
Established ==
  /\ ~ub
  /\ net.state = "inprogress"
  /\ net' = [net EXCEPT !.state = "connected"]
  /\ envUnchanged

---------------------------------------------------------------------------
(* The connection's specification *)

\* The connection and its socket after construction:
\*   - made by async_accept: the object says NonBlocking and the descriptor
\*     has O_NONBLOCK (setBlocking was called);
\*   - built around the result of TcpSocket::accept: the object says
\*     NonBlocking, the descriptor is still blocking;
\*   - built around a TcpSocket(family, blocking): both agree; the socket is
\*     connected already or not yet.
InitConnection ==
  /\ \E b \in {"Blocking", "NonBlocking"}, o \in BOOLEAN :
       /\ o => b = "NonBlocking"
       /\ conn = TcpConnection([valid |-> TRUE, family |-> "IPV4",
                                blocking |-> b, osNonblock |-> o], 1)
  /\ \E st \in {"connected", "unconnected"}, sp \in 0..MaxTx :
       /\ (conn.socket.blocking = "NonBlocking" /\ ~conn.socket.osNonblock)
            => st = "connected"
       /\ net = [state |-> st, rx |-> 0, peerShut |-> FALSE, txSpace |-> sp]

InitConn ==
  /\ InitConnection
  /\ InitCommon
  /\ NoSockets
  /\ acc = [valid |-> FALSE, blocking |-> "Blocking", fromFamily |-> TRUE,
            accept_awaiting_ |-> NoTask]
  /\ backlog = <<>>
  /\ nclients = 0
  /\ made = [c \in ClientIds |-> NoConnection]

---------------------------------------------------------------------------
(* Specifications of the connection, one per operation *)

NextRead ==
  \/ CreateRead
  \/ \E t \in TaskIds : GetCall(t)
  \/ GetLoop
  \/ \E t \in TaskIds : Await(t)
  \/ \E t \in TaskIds : DestroyTask(t)
  \/ \E t \in TaskIds : AsyncReadIter(t)
  \/ NotifyReadable
  \/ ConnectionClose
  \/ PeerSend
  \/ PeerShutdown

\* async_read on a connected socket.
InitRead == InitConn /\ net.state = "connected" /\ net.txSpace = 0
SpecRead == InitRead /\ [][NextRead]_vars

NextWrite ==
  \/ CreateWrite
  \/ \E t \in TaskIds : GetCall(t)
  \/ GetLoop
  \/ \E t \in TaskIds : Await(t)
  \/ \E t \in TaskIds : DestroyTask(t)
  \/ \E t \in TaskIds : AsyncWriteIter(t)
  \/ NotifyWritable
  \/ ConnectionClose
  \/ PeerDrain

\* async_write on a connected socket.
InitWrite == InitConn /\ net.state = "connected"
SpecWrite == InitWrite /\ [][NextWrite]_vars

NextConnect ==
  \/ CreateConnect
  \/ \E t \in TaskIds : GetCall(t)
  \/ GetLoop
  \/ \E t \in TaskIds : Await(t)
  \/ \E t \in TaskIds : DestroyTask(t)
  \/ \E t \in TaskIds : AsyncConnectIter(t)
  \/ NotifyWritable
  \/ ConnectionClose
  \/ Established

\* async_connect on a socket that is connected already or not yet.
InitConnect == InitConn /\ net.txSpace = 0
SpecConnect == InitConnect /\ [][NextConnect]_vars

\* async_connect called on a thread whose earlier socket operations, on
\* other sockets, left a value in errno.
LeftBehind == {"OK", "EINPROGRESS", "EAGAIN"}

InitStale ==
  /\ InitConnection
  /\ InitTasks
  /\ errno_ \in LeftBehind
  /\ NoSockets
  /\ acc = [valid |-> FALSE, blocking |-> "Blocking", fromFamily |-> TRUE,
            accept_awaiting_ |-> NoTask]
  /\ backlog = <<>>
  /\ nclients = 0
  /\ made = [c \in ClientIds |-> NoConnection]
  /\ net.txSpace = 0

SpecStale == InitStale /\ [][NextConnect]_vars

---------------------------------------------------------------------------
(* Specifications across the operations *)

\* A non-blocking listener and a non-blocking, not yet connected socket.
InitBoth ==
  /\ InitCommon
  /\ NoSockets
  /\ InitAcceptor /\ acc.blocking = "NonBlocking"
  /\ InitConnection /\ conn.socket.osNonblock
  /\ net.state = "unconnected" /\ net.txSpace = 0

\* Tasks of the four operations, created, driven, awaited and destroyed.
NextTasks ==
  \/ CreateAccept
  \/ CreateRead
  \/ CreateWrite
  \/ CreateConnect
  \/ \E t \in TaskIds : GetCall(t)
  \/ GetLoop
  \/ \E t \in TaskIds : Await(t)
  \/ \E t \in TaskIds : DestroyTask(t)
  \/ \E t \in TaskIds : AsyncAcceptIter(t)
  \/ \E t \in TaskIds : AsyncReadIter(t)
  \/ \E t \in TaskIds : AsyncWriteIter(t)
  \/ \E t \in TaskIds : AsyncConnectIter(t)
  \/ ClientConnect
  \/ Established
  \/ PeerSend
  \/ PeerDrain

SpecTasks == InitBoth /\ [][NextTasks]_vars

\* async_accept and async_connect awaited by a coroutine that is itself
\* driven with get(), with the notifications that resume them.
NextNested ==
  \/ CreateAccept
  \/ CreateConnect
  \/ \E t \in TaskIds : Await(t)
  \/ \E t \in TaskIds : OuterGetResumes(t)
  \/ \E t \in TaskIds : AsyncAcceptIter(t)
  \/ \E t \in TaskIds : AsyncConnectIter(t)
  \/ AcceptorNotifyReadable
  \/ NotifyWritable
  \/ ClientConnect
  \/ Established

SpecNested == InitBoth /\ [][NextNested]_vars

\* The three notify_* entry points, with the operations that suspend.
NextNotify ==
  \/ CreateAccept
  \/ CreateConnect
  \/ \E t \in TaskIds : GetCall(t)
  \/ GetLoop
  \/ \E t \in TaskIds : Await(t)
  \/ \E t \in TaskIds : DestroyTask(t)
  \/ \E t \in TaskIds : AsyncAcceptIter(t)
  \/ \E t \in TaskIds : AsyncConnectIter(t)
  \/ AcceptorNotifyReadable
  \/ NotifyReadable
  \/ NotifyWritable
  \/ AcceptorClose
  \/ ConnectionClose
  \/ ClientConnect
  \/ Established

SpecNotify == InitBoth /\ [][NextNotify]_vars

\* A non-blocking listener and a connected non-blocking socket.
InitReadable ==
  /\ InitCommon
  /\ NoSockets
  /\ InitAcceptor /\ acc.blocking = "NonBlocking"
  /\ InitConnection /\ conn.socket.osNonblock
  /\ net.state = "connected" /\ net.txSpace = 0

\* The two notify_readable entry points, with the operations they resume.
NextReadable ==
  \/ CreateAccept
  \/ CreateRead
  \/ \E t \in TaskIds : GetCall(t)
  \/ GetLoop
  \/ \E t \in TaskIds : Await(t)
  \/ \E t \in TaskIds : DestroyTask(t)
  \/ \E t \in TaskIds : AsyncAcceptIter(t)
  \/ \E t \in TaskIds : AsyncReadIter(t)
  \/ AcceptorNotifyReadable
  \/ NotifyReadable
  \/ ClientConnect
  \/ PeerSend

SpecReadable == InitReadable /\ [][NextReadable]_vars

\* A program with a listener, or a program with a connection whose socket
\* object and descriptor are in either mode, independently: a descriptor's
\* O_NONBLOCK flag can be changed behind the object, through native_handle()
\* or a duplicate of the descriptor.
InitRetry ==
  /\ InitCommon
  /\ NoSockets
  /\ \/ /\ InitAcceptor
        /\ conn = NoConnection
        /\ net = [state |-> "closed", rx |-> 0, peerShut |-> FALSE,
                  txSpace |-> 0]
     \/ /\ acc = [valid |-> FALSE, blocking |-> "Blocking",
                  fromFamily |-> TRUE, accept_awaiting_ |-> NoTask]
        /\ backlog = <<>>
        /\ nclients = 0
        /\ made = [c \in ClientIds |-> NoConnection]
        /\ \E b \in {"Blocking", "NonBlocking"}, o \in BOOLEAN :
             conn = TcpConnection([valid |-> TRUE, family |-> "IPV4",
                                   blocking |-> b, osNonblock |-> o], 1)
        /\ \E st \in {"connected", "unconnected"} :
             net = [state |-> st, rx |-> 0, peerShut |-> FALSE,
                    txSpace |-> 0]

\* Every task created so far has been driven to its end.
AllDone == \A t \in TaskIds : task[t].pc \in {"absent", "done"}

\* The four operations, one at a time, each driven with get() and each
\* system call interrupted any number of times.
NextRetry ==
  \/ AllDone /\ CreateAccept
  \/ AllDone /\ CreateRead
  \/ AllDone /\ CreateWrite
  \/ AllDone /\ CreateConnect
  \/ \E t \in TaskIds : GetCall(t)
  \/ GetLoop
  \/ \E t \in TaskIds : AsyncAcceptIter(t)
  \/ \E t \in TaskIds : AsyncReadIter(t)
  \/ \E t \in TaskIds : AsyncWriteIter(t)
  \/ \E t \in TaskIds : AsyncConnectIter(t)
  \/ ClientConnect
  \/ Established
  \/ PeerSend
  \/ PeerDrain

SpecRetry == InitRetry /\ [][NextRetry]_vars

\* The acceptor under a scheduler that lets a running coroutine take its
\* next step: the thread that resumed it executes it.
FairSpec == Spec /\ \A t \in TaskIds : WF_vars(AsyncAcceptIter(t))

---------------------------------------------------------------------------
(* The specification of the synchronous layer *)

InitSock ==
  /\ InitCommon
  /\ NoSockets
  /\ acc = [valid |-> FALSE, blocking |-> "Blocking", fromFamily |-> TRUE,
            accept_awaiting_ |-> NoTask]
  /\ backlog = <<>>
  /\ nclients = 0
  /\ made = [c \in ClientIds |-> NoConnection]
  /\ conn = NoConnection
  /\ net = 0

\* Sockets constructed, moved, closed and destroyed, with a listener among
\* them that accepts clients.
NextSock ==
  \/ \E i \in SockIds : Construct(i, TwoConfigs)
  \/ \E a, b \in SockIds : MoveConstruct(a, b)
  \/ \E a, b \in SockIds : MoveAssign(a, b)
  \/ \E i \in SockIds : Close(i)
  \/ \E i \in SockIds : Destroy(i)
  \/ \E i \in SockIds : Bind(i)
  \/ \E i \in SockIds : Listen(i)
  \/ \E l, j \in SockIds : Accept(l, j)
  \/ PeerConnects

SpecSock == InitSock /\ [][NextSock]_vars

\* Sockets constructed, moved, closed, destroyed and used, without a
\* listener.
NextMove ==
  \/ \E i \in SockIds : Construct(i, TwoConfigs)
  \/ \E a, b \in SockIds : MoveConstruct(a, b)
  \/ \E a, b \in SockIds : MoveAssign(a, b)
  \/ \E i \in SockIds : Close(i)
  \/ \E i \in SockIds : Destroy(i)
  \/ \E i \in SockIds : Send(i)
  \/ \E i \in SockIds : Receive(i)

SpecMove == InitSock /\ [][NextMove]_vars

\* A server socket of any configuration, constructed in slot 1 when no
\* other socket is alive, and the sockets it accepts in the other slots,
\* with every call made on every one of them.
NextAccept ==
  \/ (\A i \in SockIds : ~socks[i].alive) /\ Construct(1, AllConfigs)
  \/ \E i \in SockIds : Bind(i)
  \/ \E i \in SockIds : Listen(i)
  \/ \E j \in SockIds : Accept(1, j)
  \/ \E i \in SockIds : Connect(i)
  \/ \E i \in SockIds : Send(i)
  \/ \E i \in SockIds : Receive(i)
  \/ \E i \in SockIds : LocalEndpoint(i)
  \/ \E i \in SockIds : Close(i)
  \/ \E i \in SockIds : Destroy(i)
  \/ PeerConnects
  \/ HandshakeCompletes

SpecAccept == InitSock /\ [][NextAccept]_vars

\* Object i's descriptor has not been shut down in any direction.
NotShut(i) == is_valid(socks[i]) => fds[socks[i].handle_].shut = "none"

\* Every call of the socket layer, on a server socket, on the sockets it
\* accepts and on empty sockets.  The modes are set on the server socket; no
\* data is sent or received on a descriptor once it has been shut down.
NextCalls ==
  \/ (\A i \in SockIds : ~socks[i].alive) /\ Construct(1, AllConfigs)
  \/ \E i \in SockIds : Bind(i)
  \/ \E i \in SockIds : Listen(i)
  \/ \E j \in SockIds : Accept(1, j)
  \/ \E i \in SockIds : Connect(i)
  \/ \E i \in SockIds : NotShut(i) /\ Send(i)
  \/ \E i \in SockIds : NotShut(i) /\ Receive(i)
  \/ \E i \in SockIds : LocalEndpoint(i)
  \/ SetBlocking(1)
  \/ SetInheritable(1)
  \/ \E i \in SockIds : Shutdown(i)
  \/ \E i \in SockIds : Close(i)
  \/ \E i \in SockIds : Destroy(i)
  \/ PeerConnects

SpecCalls == InitSock /\ [][NextCalls]_vars

\* The configuration of a non-blocking listener, whose accept returns the
\* empty socket while no client waits.
ListenerConfig == {<<"IPV4", "NonBlocking", "Inheritable">>}

\* A listener that accepts clients or returns the empty socket; it and the
\* sockets it returns are moved, closed and destroyed, and shutdown is called
\* on any of them.
NextShut ==
  \/ Construct(1, ListenerConfig)
  \/ \E a, b \in SockIds : MoveConstruct(a, b)
  \/ Bind(1)
  \/ Listen(1)
  \/ \E j \in SockIds : Accept(1, j)
  \/ \E i \in SockIds : Shutdown(i)
  \/ \E i \in SockIds : Close(i)
  \/ \E i \in SockIds : Destroy(i)
  \/ PeerConnects

SpecShut == InitSock /\ [][NextShut]_vars

\* A TcpAcceptor around a socket of any configuration: bound, made to
\* listen with a backlog argument, accepting, closed and destroyed.
NextListen ==
  \/ (\A i \in SockIds : ~socks[i].alive)
       /\ Construct(AcceptorSocket, AllConfigs)
  \/ Bind(AcceptorSocket)
  \/ AcceptorListen
  \/ \E j \in SockIds : Accept(AcceptorSocket, j)
  \/ \E i \in SockIds : Close(i)
  \/ \E i \in SockIds : Destroy(i)
  \/ PeerConnects

SpecListen == InitSock /\ [][NextListen]_vars

---------------------------------------------------------------------------
(* A connected pair of stream sockets *)

Sender   == 1      \* the socket object that sends
Receiver == 2      \* the socket object that receives

\* The kernel's answer that ends a call: the tries a signal interrupts
\* transfer nothing.
Settled(intr) == IF intr > 0 THEN 0 ELSE IF intr < -1 THEN -1 ELSE intr

\* How many bytes the stream holds between the two descriptors.
PipeCap == MaxTx + MaxRx

\* The bytes the sender offers in a send of length L: the data is the
\* sequence 1, 2, 3, ... and a send starts after the bytes the earlier
\* sends reported as accepted (data.subspan(sent_total)).
Offered(L) == [i \in 1..L |-> pipe.off + i]

\* The first m elements of q, and q without them.
Take(q, m) == SubSeq(q, 1, m)
Drop(q, m) == SubSeq(q, m + 1, Len(q))

\* A receive buffer of length L into which the kernel copied bytes d: the
\* rest of the buffer holds what it held before (0).
Filled(d, L) == [i \in 1..L |-> IF i <= Len(d) THEN d[i] ELSE 0]

\* client.send(data.subspan(sent_total)) with data.size() - sent_total = L.
StreamSend ==
  /\ \E L \in 1..MaxLen, n \in 1..MaxLen, intr \in Faults :
       LET o == socks[Sender]
           k == [state |-> "connected", rx |-> 0, peerShut |-> FALSE,
                 txSpace |-> PipeCap - Len(pipe.buf)]
           r == raw_send(View(o, fds), k, n, intr, L, errno_)
           os == OsSend(View(o, fds), k, n, Settled(intr), L)
           taken == IF os.ret > 0 THEN os.ret ELSE 0
       IN
       /\ n <= L
       /\ pipe.off + L <= MaxBytes
       /\ r.kind # "block"
       /\ hist' = IoCall("send", o, r)
       /\ pipe' = [pipe EXCEPT
                     !.buf = @ \o Take(Offered(L), taken),
                     !.sent = IF r.kind = "ret" /\ r.n > 0
                                THEN Append(@, Take(Offered(L), r.n)) ELSE @,
                     !.off = IF r.kind = "ret" THEN @ + r.n ELSE @]
  /\ UNCHANGED <<socks, fds, accVars, connVars, task, errno_, thread,
                 lastCall, driverExc, ub, tobj>>

\* server.receive(buffer.subspan(total)) with a buffer of L bytes left.
StreamReceive ==
  /\ \E L \in 1..MaxLen, n \in 1..MaxLen, intr \in Faults :
       LET o == socks[Receiver]
           k == [state |-> "connected", rx |-> Len(pipe.buf),
                 peerShut |-> FALSE, txSpace |-> 0]
           r == raw_recv(View(o, fds), k, n, intr, L, errno_)
           os == OsRecv(View(o, fds), k, n, Settled(intr), L)
           copied == IF os.ret > 0 THEN os.ret ELSE 0
           buffer == Filled(Take(pipe.buf, copied), L)
       IN
       /\ n <= L
       /\ r.kind # "block"
       /\ hist' = IoCall("receive", o, r)
       /\ pipe' = [pipe EXCEPT
                     !.buf = Drop(@, copied),
                     !.rcvd = IF r.kind = "ret" /\ r.n > 0
                                THEN Append(@, Take(buffer, r.n)) ELSE @]
  /\ UNCHANGED <<socks, fds, accVars, connVars, task, errno_, thread,
                 lastCall, driverExc, ub, tobj>>

\* Two socket objects around the descriptors of a connected pair, both
\* blocking or both non-blocking.
InitStream ==
  /\ InitCommon
  /\ acc = [valid |-> FALSE, blocking |-> "Blocking", fromFamily |-> TRUE,
            accept_awaiting_ |-> NoTask]
  /\ backlog = <<>>
  /\ nclients = 0
  /\ made = [c \in ClientIds |-> NoConnection]
  /\ conn = NoConnection
  /\ net = 0
  /\ hist = NoCall
  /\ pipe = NoPipe
  /\ \E b \in BlockingType :
       /\ socks = [i \in SockIds |->
                     IF i \in {Sender, Receiver}
                       THEN Socket(2 + i, "IPV4", b, "Inheritable")
                       ELSE NoObject]
       /\ fds = [h \in FdIds |->
                   IF h \in {2 + Sender, 2 + Receiver}
                     THEN [open |-> TRUE, nonblock |-> (b = "NonBlocking"),
                           cloexec |-> FALSE, family |-> "IPV4",
                           state |-> "connected", qlen |-> 0,
                           shut |-> "none"]
                     ELSE ClosedFd]

NextStream ==
  \/ StreamSend
  \/ StreamReceive

SpecStream == InitStream /\ [][NextStream]_vars

---------------------------------------------------------------------------
(* The specification of the task objects *)

\* Tasks of async_accept held in task objects that are constructed, moved,
\* driven with get() and destroyed.
NextOwn ==
  \/ \E a \in ObjIds : TaskCreate(a)
  \/ \E a \in ObjIds : TaskDefault(a)
  \/ \E a, b \in ObjIds : TaskMoveConstruct(a, b)
  \/ \E a, b \in ObjIds : TaskMoveAssign(a, b)
  \/ \E a \in ObjIds : TaskDestructor(a)
  \/ \E a \in ObjIds : TaskGet(a)
  \/ GetLoop
  \/ \E t \in TaskIds : AsyncAcceptIter(t)
  \/ ClientConnect

SpecOwn == Init /\ [][NextOwn]_vars

\* Task objects created, default-constructed, moved and destroyed, and
\* awaited by a coroutine of the application.
NextAwait ==
  \/ \E a \in ObjIds : TaskCreate(a)
  \/ \E a \in ObjIds : TaskDefault(a)
  \/ \E a, b \in ObjIds : TaskMoveConstruct(a, b)
  \/ \E a \in ObjIds : TaskDestructor(a)
  \/ \E a \in ObjIds : TaskAwait(a)
  \/ \E t \in TaskIds : AsyncAcceptIter(t)
  \/ AcceptorNotifyReadable
  \/ ClientConnect

SpecAwait == Init /\ [][NextAwait]_vars

---------------------------------------------------------------------------
(* Properties *)

NotifyNames == {"acceptor.notify_readable", "notify_readable",
                "notify_writable"}

\* C1: on a connection whose socket is non-blocking, an async_read whose
\* receive would block does not complete (it waits in the read-waiter slot
\* and retries); it completes with 0 only after a receive that returned 0 at
\* the peer's orderly shutdown.
C1_WouldBlockSuspendsRead ==
  \A t \in TaskIds :
    task[t].kind = "read" =>
      /\ task[t].lastOs = "wouldblock" => task[t].pc # "done"
      /\ (task[t].pc = "done" /\ task[t].value = SizeValue(0))
           => task[t].lastOs = "eof"

\* C2: on a connection whose socket is non-blocking, an async_write whose
\* send would block does not fail (it waits in the write-waiter slot and
\* retries); "connection closed" is raised only on a blocking socket.
C2_WouldBlockSuspendsWrite ==
  \A t \in TaskIds :
    task[t].kind = "write" =>
      /\ task[t].lastOs = "wouldblock" => task[t].pc # "done"
      /\ task[t].raised = runtime_error("connection closed")
           => conn.socket.blocking = "Blocking"

RECURSIVE Flatten(_)
Flatten(chunks) ==
  IF chunks = <<>> THEN <<>> ELSE Head(chunks) \o Flatten(Tail(chunks))

RECURSIVE SumLen(_)
SumLen(chunks) ==
  IF chunks = <<>> THEN 0 ELSE Len(Head(chunks)) + SumLen(Tail(chunks))

\* C3: the sends of an async_write hand the kernel the buffer's bytes in
\* order, each send starting right after the bytes already accepted, and
\* when the task completes without an exception the accepted byte counts sum
\* to the buffer's length: every byte was handed over exactly once.
C3_WriteHandsEveryByteOnce ==
  \A t \in TaskIds :
    task[t].kind = "write" =>
      /\ task[t].off <= task[t].len
      /\ Flatten(task[t].wire) = [i \in 1..task[t].off |-> i]
      /\ (task[t].pc = "done" /\ task[t].exception = NoExc)
           => /\ SumLen(task[t].wire) = task[t].len
              /\ Flatten(task[t].wire) = [i \in 1..task[t].len |-> i]

\* A write of at least two bytes completed in more than one send.
C3_Witness ==
  \E t \in TaskIds :
    /\ task[t].kind = "write"
    /\ task[t].pc = "done" /\ task[t].exception = NoExc
    /\ task[t].len >= 2
    /\ Len(task[t].wire) >= 2

\* The coroutine of task t runs async_accept's loop while a client is pending.
AcceptRunsWithClient(t) ==
  /\ thread.run = t
  /\ task[t].kind = "accept"
  /\ acc.valid
  /\ backlog # <<>>

\* Task t completed with a non-null connection to client c.
AcceptedClient(t, c) ==
  /\ task[t].pc = "done"
  /\ task[t].exception = NoExc
  /\ \/ task[t].value = ConnValue(c)
     \/ /\ task[t].delivered # <<>>
        /\ task[t].delivered[1] = Returned(ConnValue(c))
  /\ made[c].exists /\ made[c].socket.valid
  /\ made[c].remotePort = PortOf(c)
  /\ made[c].remotePort # 0

C5_FamilyAcceptorNeverBlocks ==
  acc.fromFamily => ~BlockedInAccept

\* C6: a notify_writable that finds an async_connect suspended in the
\* write-waiter slot clears the slot and resumes the task.
C6_NotifyWritableResumesConnect ==
  [][\A t \in TaskIds :
       (/\ NotifyWritable
        /\ conn.write_awaiting_ = t
        /\ task[t].kind = "connect" /\ task[t].pc = "suspended")
         => /\ conn'.write_awaiting_ = NoTask
            /\ task'[t].pc = "running"]_vars

\* C7: a task that was created and has not been awaited or driven with
\* get() has executed nothing of its body: it is at its initial suspension,
\* has made no system call, raised no exception and is in no waiter slot.
C7_CreationRunsNothing ==
  \A t \in TaskIds :
    (task[t].pc \notin {"absent", "destroyed"} /\ ~task[t].started)
      => /\ task[t].pc = "init"
         /\ task[t].lastOs = "none"
         /\ task[t].raised = NoExc /\ task[t].exception = NoExc
         /\ acc.accept_awaiting_ # t
         /\ conn.read_awaiting_ # t /\ conn.write_awaiting_ # t

\* A task waits at its initial suspension while a client is pending and
\* another step of the library has been taken.
C7_Witness ==
  \E t \in TaskIds :
    /\ task[t].pc = "init" /\ ~task[t].started
    /\ task[t].kind = "accept"
    /\ backlog # <<>>

\* C8: an exception raised by the body of a task is stored in the task and
\* every get() or co_await of the task re-raises it; the task yields no
\* normal result.
C8_ExceptionStoredAndRethrown ==
  \A t \in TaskIds :
    task[t].raised # NoExc =>
      /\ task[t].pc = "done"
      /\ task[t].exception = task[t].raised
      /\ task[t].value = NoValue
      /\ \A i \in 1..Len(task[t].delivered) :
           task[t].delivered[i] = Threw(task[t].raised)

\* A failed task was consumed twice.
C8_Witness ==
  \E t \in TaskIds :
    /\ task[t].raised # NoExc
    /\ Len(task[t].delivered) >= 2

\* C9: no exception leaves notify_readable / notify_writable of a
\* connection or notify_readable of an acceptor: what a resumed coroutine
\* raises is stored in its task.
C9_NotifyNeverThrows ==
  /\ ~driverExc
  /\ \A t \in TaskIds :
       (thread.op = "idle" /\ lastCall \in NotifyNames /\ task[t].raised # NoExc)
         => task[t].exception = task[t].raised

\* notify_readable resumed an async_accept that then failed.
C9_Witness ==
  /\ lastCall = "acceptor.notify_readable"
  /\ thread.op = "idle"
  /\ \E t \in TaskIds :
       /\ task[t].kind = "accept" /\ task[t].continuation
       /\ task[t].pc = "done"
       /\ task[t].raised # NoExc

\* C10: destroying a suspended task takes its handle out of the waiter
\* slot: no slot names a destroyed frame, and no notify_* resumes one.
C10_DestroyDeregisters ==
  /\ ~ub
  /\ \A t \in TaskIds :
       task[t].pc = "destroyed"
         => /\ acc.accept_awaiting_ # t
            /\ conn.read_awaiting_ # t
            /\ conn.write_awaiting_ # t

\* C11: after socket b is move-constructed or move-assigned from another
\* socket a, a is empty, b holds the handle a held before the move, and b
\* carries a's configuration.
C11_MoveTransfersOwnership ==
  [][\A a, b \in SockIds :
       (a # b /\ (MoveConstruct(a, b) \/ MoveAssign(a, b)))
         => /\ ~is_valid(socks'[a])
            /\ socks'[b].handle_ = socks[a].handle_
            /\ Config(socks'[b]) = Config(socks[a])]_vars

C11_Witness ==
  /\ hist.op = "move_assign" /\ hist.valid
  /\ \E a, b \in SockIds :
       /\ a # b /\ socks[a].alive /\ socks[b].alive
       /\ ~is_valid(socks[a]) /\ is_valid(socks[b])
       /\ Config(socks[a]) = Config(socks[b])

\* C12: across construction, accept, move construction, move assignment
\* (self-assignment included), close and destruction, no two live socket
\* objects hold the same valid descriptor.
C12_OneOwnerPerDescriptor ==
  \A i, j \in SockIds :
    (i # j /\ socks[i].alive /\ socks[j].alive /\ is_valid(socks[i]))
      => socks[i].handle_ # socks[j].handle_

C12_Witness ==
  /\ hist.op = "move_assign" /\ hist.valid
  /\ \E i, j \in SockIds :
       /\ i # j /\ is_valid(socks[i]) /\ is_valid(socks[j])
       /\ fds[socks[i].handle_].state = "listening"
       /\ fds[socks[j].handle_].state = "connected"

\* C13: Socket::close() is idempotent: after a call the socket is empty, a
\* call on an empty socket leaves it empty and releases no descriptor (it
\* changes neither the descriptor table nor any socket), and send and
\* receive on the closed socket end in an exception.
C13_CloseIdempotent ==
  [][/\ hist'.op = "close"
        => /\ \E i \in SockIds :
                /\ socks'[i].alive /\ ~is_valid(socks'[i])
                /\ \A j \in SockIds \ {i} : socks'[j] = socks[j]
           /\ ~hist'.valid => (fds' = fds /\ socks' = socks)
     /\ (hist'.op \in {"send", "receive"} /\ ~hist'.valid)
        => (hist'.res = "throw" /\ fds' = fds /\ socks' = socks)]_vars

C13_Witness ==
  /\ hist.op = "close" /\ ~hist.valid
  /\ \E i, j \in SockIds :
       /\ socks[i].alive /\ ~is_valid(socks[i])
       /\ is_valid(socks[j]) /\ fds[socks[j].handle_].open

\* C14: on an empty socket each of send, receive, connect, bind, listen,
\* accept and localEndpoint ends in an exception, never in a normal result,
\* and changes no socket and no descriptor.
EmptyOps == {"send", "receive", "connect", "bind", "listen", "accept",
             "local_endpoint"}
C14_EmptySocketCallsThrow ==
  [][(hist'.op \in EmptyOps /\ ~hist'.valid)
       => (hist'.res = "throw" /\ socks' = socks /\ fds' = fds)]_vars

C14_Witness ==
  /\ hist.op \in EmptyOps /\ ~hist.valid /\ hist.res = "throw"
  /\ \E i, j \in SockIds :
       /\ socks[i].alive /\ ~is_valid(socks[i])
       /\ is_valid(socks[j]) /\ fds[socks[j].handle_].state = "connected"

\* The socket object a successful accept has just returned, and the listener
\* it was accepted from.
JustAccepted(j) ==
  /\ hist'.op = "accept" /\ hist'.res = "ok"
  /\ ~socks[j].alive /\ socks'[j].alive
IsListener(l) ==
  /\ is_valid(socks[l])
  /\ fds[socks[l].handle_].open /\ fds[socks[l].handle_].state = "listening"

C18_AcceptedFamily ==
  [][\A l, j \in SockIds :
       (JustAccepted(j) /\ IsListener(l))
         => socks'[j].address_family_ = socks[l].address_family_]_vars

\* C19: a closed TcpConnection holds no valid descriptor, in every state;
\* and close() on a closed connection changes nothing: neither the
\* connection nor the state of any descriptor.
C19_ClosedMeansInvalid ==
  /\ [](conn.closed_ => ~conn.socket.valid)
  /\ [][(ConnectionClose /\ conn.closed_)
          => (conn' = conn /\ net' = net /\ task' = task)]_vars

C19_Witness ==
  /\ lastCall = "close"
  /\ conn.closed_ /\ ~conn.socket.valid
  /\ \E t \in TaskIds :
       task[t].raised = logic_error("connect on invalid socket")

C16_WouldBlockRaises ==
  (hist.op = "receive" /\ hist.wb /\ hist.cfg = "NonBlocking")
    => (hist.res = "throw" /\ hist.exc = "system_error")

\* Sequence p is a prefix of sequence q.
IsPrefix(p, q) == Len(p) <= Len(q) /\ p = SubSeq(q, 1, Len(p))

\* C20: over a connected pair, whatever the sequence of sends and however
\* the receiver's partial receives split the stream, the bytes the receives
\* returned, concatenated, are the bytes the sends accepted, concatenated,
\* in order: a prefix of them while bytes are in flight, all of them once
\* the stream is drained.
C20_StreamDeliversBytesInOrder ==
  /\ Flatten(pipe.sent) = [i \in 1..SumLen(pipe.sent) |-> i]
  /\ IsPrefix(Flatten(pipe.rcvd), Flatten(pipe.sent))
  /\ pipe.buf = <<>> => Flatten(pipe.rcvd) = Flatten(pipe.sent)

C20_Witness ==
  /\ Len(pipe.sent) >= 2 /\ Len(pipe.rcvd) >= 2
  /\ \E i \in 1..Len(pipe.sent) : Len(pipe.sent[i]) >= 2
  /\ SumLen(pipe.sent) = MaxBytes
  /\ Flatten(pipe.rcvd) = Flatten(pipe.sent)

\* The live task objects whose handle_ names frame t.
Owners(t) == {a \in ObjIds : tobj.obj[a].alive /\ tobj.obj[a].handle_ = t}

\* C21: a move (construction or assignment from another object) hands the
\* source's coroutine to the target and leaves the source empty, without
\* touching the frame; get() on an empty task raises runtime_error("invalid
\* task") and resumes nothing; a frame that exists has exactly one owner and
\* has not been destroyed, a destroyed frame has no owner and was destroyed
\* once, and the object that destroys a frame is the one that owned it.
C21_MoveTransfersCoroutine ==
  /\ [](/\ ~ub
        /\ \A t \in TaskIds :
             /\ task[t].pc \notin {"absent", "destroyed"}
                  => (Cardinality(Owners(t)) = 1 /\ tobj.frees[t] = 0)
             /\ task[t].pc = "destroyed"
                  => (Owners(t) = {} /\ tobj.frees[t] = 1)
             /\ task[t].pc = "absent"
                  => (Owners(t) = {} /\ tobj.frees[t] = 0))
  /\ [][LET op == tobj'.last.op
            a == tobj'.last.a
            b == tobj'.last.b
        IN
        /\ (tobj' # tobj /\ op \in {"move", "assign"} /\ a # b)
             => /\ tobj'.obj[a].handle_ = tobj.obj[b].handle_
                /\ tobj'.obj[b] = task_default
                /\ \A t \in TaskIds :
                     t # tobj.obj[a].handle_ => task'[t] = task[t]
        /\ (tobj'.last # tobj.last /\ op = "get"
               /\ tobj.obj[a].handle_ = NoTask)
             => /\ tobj'.last.exc = runtime_error("invalid task")
                /\ task' = task
                /\ thread' = thread
        /\ \A t \in TaskIds :
             tobj'.frees[t] > tobj.frees[t] => tobj.obj[a].handle_ = t]_vars

\* get() was called on an empty task object while another object owns a
\* coroutine that has run to its end.
C21_Witness ==
  /\ tobj.last.op = "get"
  /\ tobj.last.exc = runtime_error("invalid task")
  /\ \E b \in ObjIds, t \in TaskIds :
       /\ b # tobj.last.a
       /\ Owners(t) = {b}
       /\ task[t].pc = "done"

\* C22: after acceptor.listen(b) has succeeded, the backlog the kernel was
\* given for the acceptor's descriptor is b.
C22_ListenPassesBacklog ==
  (hist.op = "acceptor.listen" /\ hist.res = "ok")
    => fds[socks[AcceptorSocket].handle_].qlen = hist.n

\* notify_* resumed the coroutine of handle h, and nothing else.
ResumedOnce(h) ==
  /\ ~ub'
  /\ task[h].pc = "suspended"
  /\ task' = [task EXCEPT ![h] = Resumed(task[h])]
  /\ thread'.run = h

\* C23: notify_readable on the connection with a read-waiter recorded, and
\* on the acceptor with an accept-waiter recorded that is not done, leaves
\* the slot empty and the waiter resumed, once; otherwise it changes nothing
\* and resumes nothing.
C23_NotifyReadableResumesOnce ==
  [][/\ NotifyReadable =>
          IF conn.read_awaiting_ # NoTask
            THEN /\ conn' = [conn EXCEPT !.read_awaiting_ = NoTask]
                 /\ ResumedOnce(conn.read_awaiting_)
            ELSE UNCHANGED <<conn, acc, task, thread, ub>>
     /\ AcceptorNotifyReadable =>
          LET h == acc.accept_awaiting_ IN
          IF h # NoTask /\ task[h].pc # "done"
            THEN /\ acc' = [acc EXCEPT !.accept_awaiting_ = NoTask]
                 /\ ResumedOnce(h)
            ELSE UNCHANGED <<conn, acc, task, thread, ub>>]_vars

\* C24: a notify_writable that does not end by closing the connection
\* removes from a non-empty pending-write buffer the prefix the kernel
\* accepted; a notify_writable whose send raises closes the connection; and
\* a notify_writable that leaves the buffer empty while a write-waiter is
\* recorded, whether or not the buffer was empty on entry, empties the
\* write-waiter slot and resumes that waiter.
C24_NotifyWritableFlushesAndResumes ==
  [][NotifyWritable =>
       LET wb == conn.write_buffer_
           h == conn.write_awaiting_
       IN
       /\ (wb # <<>> /\ conn'.closed_ = conn.closed_)
            => \E n \in 0..Len(wb) :
                 /\ conn'.write_buffer_ = SubSeq(wb, n + 1, Len(wb))
                 /\ net'.txSpace = net.txSpace - n
       /\ (conn'.closed_ # conn.closed_) => ~conn'.socket.valid
       /\ (conn'.write_buffer_ = <<>> /\ h # NoTask
             /\ conn'.closed_ = conn.closed_)
            => /\ conn'.write_awaiting_ = NoTask
               /\ thread'.run = h]_vars

\* A pass of async_connect's body in task t: from the start, with the call
\* of socket_.connect, or after a resumption.
ConnectPass(t, pos) ==
  /\ task[t].kind = "connect"
  /\ task[t].pc = "running"
  /\ task[t].pos = pos
  /\ task'[t] # task[t]

\* C25: async_connect suspends in its first pass only if its connect call
\* left the handshake in progress; if that call connected the socket at
\* once, the task is done after the pass and the write-waiter slot is as it
\* was; and a pass after a resumption does not suspend.
C25_ConnectSuspendsOnlyOnPending ==
  [][\A t \in TaskIds :
       /\ (ConnectPass(t, "start") /\ task'[t].pc = "suspended")
            => net'.state = "inprogress"
       /\ (ConnectPass(t, "start") /\ net.state # "connected"
             /\ net'.state = "connected")
            => (task'[t].pc = "done" /\ conn'.write_awaiting_ = conn.write_awaiting_)
       /\ ConnectPass(t, "loop") => task'[t].pc # "suspended"]_vars

\* A pass of async_accept's loop in task t after notify_readable resumed it.
NotifiedAcceptPass(t) ==
  /\ task[t].kind = "accept"
  /\ task[t].pc = "running"
  /\ task[t].pos = "loop"
  /\ thread.op = "notify"
  /\ thread.run = t
  /\ task'[t] # task[t]

\* C26: every suspension of async_accept records the task as the
\* accept-waiter; when notify_readable has resumed a suspended async_accept
\* with no client pending, the kernel answers the accept with would-block,
\* unless the call fails, and the task then has no result and no exception,
\* is suspended again and is the accept-waiter; when
\* a client is pending and the kernel hands over its descriptor, the task
\* is done with the connection to that client.
C26_SpuriousWakeupSuspendsAgain ==
  [][\A t \in TaskIds :
       /\ (task[t].kind = "accept" /\ task[t].pc = "running"
             /\ task'[t].pc = "suspended")
            => acc'.accept_awaiting_ = t
       /\ (NotifiedAcceptPass(t) /\ task'[t].lastOs = "wouldblock")
            => /\ backlog = <<>>
               /\ task'[t].pc = "suspended"
               /\ task'[t].value = NoValue
               /\ task'[t].exception = NoExc
               /\ acc'.accept_awaiting_ = t
       /\ (NotifiedAcceptPass(t) /\ backlog = <<>> /\ acc.valid
             /\ task'[t].lastOs # "error")
            => task'[t].lastOs = "wouldblock"
       /\ (NotifiedAcceptPass(t) /\ backlog # <<>> /\ task'[t].lastOs = "ok")
            => /\ task'[t].pc = "done"
               /\ task'[t].exception = NoExc
               /\ \/ task'[t].value = ConnValue(Head(backlog))
                  \/ task'[t].delivered = <<Returned(ConnValue(Head(backlog)))>>
               /\ made'[Head(backlog)].exists]_vars

\* notify_readable resumed a suspended async_accept with no client pending,
\* and the task is suspended again as the accept-waiter.
C26_Witness ==
  \E t \in TaskIds :
    /\ Idle
    /\ lastCall = "acceptor.notify_readable"
    /\ task[t].kind = "accept"
    /\ task[t].pc = "suspended"
    /\ task[t].pos = "loop"
    /\ acc.accept_awaiting_ = t
    /\ backlog = <<>>

\* C27: a call of close() on the connection leaves every task, the thread
\* and both waiter slots as they were; of the connection it changes at most
\* closed_ and the validity of the socket's descriptor, and it changes
\* nothing of the acceptor.
C27_CloseResumesNothing ==
  [][ConnectionClose =>
       /\ task' = task
       /\ thread' = thread
       /\ conn'.read_awaiting_ = conn.read_awaiting_
       /\ conn'.write_awaiting_ = conn.write_awaiting_
       /\ conn' = [conn EXCEPT !.closed_ = conn'.closed_,
                               !.socket.valid = conn'.socket.valid]
       /\ acc' = acc
       /\ made' = made]_vars

\* close() was called while an async_connect was suspended in the
\* write-waiter slot; the task is still suspended and still in the slot.
C27_Witness ==
  /\ lastCall = "close"
  /\ conn.closed_
  /\ conn.write_awaiting_ # NoTask
  /\ task[conn.write_awaiting_].pc = "suspended"

\* Task t reaches its final suspension in this step.
ReachesFinalSuspend(t) == task[t].pc = "running" /\ task'[t].pc = "done"

\* What the continuation of task t received last.
LastDelivered(t) == task'[t].delivered[Len(task'[t].delivered)]

C29_AcceptedDescriptorNonBlocking ==
  /\ \A c \in ClientIds :
       made[c].exists
         => /\ made[c].socket.valid
            /\ made[c].socket.osNonblock
            /\ made[c].socket.blocking = "NonBlocking"
  /\ \A t \in TaskIds :
       (task[t].kind = "accept" /\ task[t].value.kind = "conn"
          /\ task[t].value.v # 0)
         => (made[task[t].value.v].exists
               /\ made[task[t].value.v].socket.osNonblock)

\* async_accept on a blocking listener has produced a connection.
C29_Witness ==
  \E c \in ClientIds, t \in TaskIds :
    /\ acc.blocking = "Blocking"
    /\ made[c].exists
    /\ task[t].pc = "done"
    /\ task[t].value = ConnValue(c)

---------------------------------------------------------------------------
\* What the caller sees of a result: everything but errno.
Outcome(r) == [x \in (DOMAIN r) \ {"errno"} |-> r[x]]

---------------------------------------------------------------------------
\* C31: when an OS call made by a socket-layer call on a valid socket (or by
\* the creating constructor) ends it with a hard failure, the call raises a
\* system error that carries the error code of that OS call.
C31_HardFailureIsSystemError ==
  (hist.oserr # "OK" /\ (hist.valid \/ hist.op = "ctor"))
    => /\ hist.res = "throw"
       /\ hist.exc = "system_error"
       /\ hist.what = hist.oserr

---------------------------------------------------------------------------
\* C32: TcpSocket::connect on an empty socket raises a logic error and
\* leaves the kernel and errno alone; on a socket whose ::connect succeeds it
\* returns; on a non-blocking socket an in-progress result makes it return
\* with the connection pending; every other uninterrupted failure, the
\* in-progress result on a blocking socket included, raises a system error
\* with the code of the failure.  An async_connect task raised a logic error
\* exactly on an empty socket, and EINPROGRESS only on a blocking one.
C32_ConnectOutcomes ==
  /\ \A refused \in BOOLEAN :
       LET s == conn.socket
           o == OsConnect(s, net.state, 0, refused)
           r == TcpSocket_connect(s, net.state, 0, refused, errno_)
       IN
       IF ~s.valid
         THEN /\ r.kind = "throw"
              /\ r.exc = logic_error("connect on invalid socket")
              /\ r.state = net.state
              /\ r.errno = errno_
       ELSE IF o.ret = 0
         THEN r.kind = "ret" /\ r.state = "connected"
       ELSE IF o.err = "EINPROGRESS" /\ s.blocking = "NonBlocking"
         THEN r.kind = "ret" /\ r.state = "inprogress"
       ELSE r.kind = "throw" /\ r.exc = system_error(o.err)
  /\ \A t \in TaskIds :
       (task[t].kind = "connect" /\ task[t].raised # NoExc)
         => /\ task[t].raised.type \in {"logic_error", "system_error"}
            /\ task[t].raised.type = "logic_error" <=> ~conn.socket.valid
            /\ task[t].raised = system_error("EINPROGRESS")
                 => conn.socket.blocking = "Blocking"

\* async_connect on a blocking socket object whose descriptor answered
\* in-progress ended with that system error.
C32_Witness ==
  \E t \in TaskIds :
    /\ task[t].kind = "connect"
    /\ task[t].pc = "done"
    /\ task[t].raised = system_error("EINPROGRESS")
    /\ conn.socket.blocking = "Blocking"
    /\ net.state = "inprogress"

---------------------------------------------------------------------------
\* C33: shutdown on a socket object without a descriptor (empty, closed or
\* moved-from), in any direction, calls no OS function, returns normally and
\* changes neither the objects, the descriptor table, the listen queue nor
\* errno.
C33_ShutdownInvalidNoOp ==
  [][\A i \in SockIds :
       (Shutdown(i) /\ ~is_valid(socks[i]))
         => /\ hist'.op = "shutdown" /\ ~hist'.valid
            /\ hist'.sys = "none"
            /\ hist'.res = "ok" /\ hist'.exc = "none" /\ hist'.oserr = "OK"
            /\ UNCHANGED <<socks, fds, backlog, nclients, errno_>>]_vars

\* shutdown has returned on an object that holds no descriptor.
C33_Witness ==
  /\ hist.op = "shutdown" /\ ~hist.valid /\ hist.res = "ok"
  /\ \E i \in SockIds : socks[i].alive /\ ~is_valid(socks[i])

---------------------------------------------------------------------------
\* The descriptors that are open in table k, and those the live socket
\* objects hold.
OpenFds(k) == {h \in FdIds : k[h].open}
HeldFds(ss) == {ss[i].handle_ : i \in {j \in SockIds : ss[j].alive /\ is_valid(ss[j])}}

\* C34: across construction, accept, moves, close and destruction every open
\* descriptor is held by a live socket object and every handle held is open
\* (so once all objects are destroyed no descriptor is open, and ::close never
\* receives a number that was closed before); a step closes at most one
\* descriptor, through close, the destructor or move assignment, and it is
\* the one the object held; move assignment closes exactly the descriptor
\* that no object holds afterwards, the target's; close and the destructor
\* of an object without a descriptor close nothing.
C34_DescriptorsClosedOnce ==
  /\ [](OpenFds(fds) = HeldFds(socks))
  /\ [][LET closed == OpenFds(fds) \ OpenFds(fds') IN
        /\ Cardinality(closed) <= 1
        /\ closed # {}
             => /\ hist'.op \in {"close", "dtor", "move_assign"}
                /\ \E i \in SockIds :
                     /\ socks[i].alive /\ socks[i].handle_ \in closed
                     /\ ~socks'[i].alive \/ socks'[i].handle_ \notin closed
                /\ closed \cap HeldFds(socks') = {}
        /\ hist'.op = "move_assign"
             => closed = HeldFds(socks) \ HeldFds(socks')
        /\ (hist'.op \in {"close", "dtor"} /\ ~hist'.valid) => closed = {}
        /\ (hist'.op \in {"close", "dtor"} /\ hist'.valid /\ hist' # hist)
             => Cardinality(closed) = 1]_vars

\* Every socket object has been destroyed, the last one while it held a
\* descriptor of a connection a client had made, and no descriptor is open.
C34_Witness ==
  /\ hist.op = "dtor" /\ hist.valid
  /\ \A i \in SockIds : ~socks[i].alive
  /\ OpenFds(fds) = {}
  /\ nclients > 0 /\ backlog = <<>>

---------------------------------------------------------------------------
\* C35: for every socket object that holds a descriptor, the blocking mode
\* the object records is the mode of the descriptor: blocking() is
\* NonBlocking exactly when O_NONBLOCK is set.
C35_RecordedModeIsDescriptorMode ==
  \A i \in SockIds :
    (socks[i].alive /\ is_valid(socks[i]))
      => ((socks[i].blocking_ = "NonBlocking")
            <=> fds[socks[i].handle_].nonblock)

---------------------------------------------------------------------------
\* The task a waiter slot names is suspended in the operation of that slot.
SlotHoldsSuspended(h, kind) ==
  h # NoTask => (task[h].kind = kind /\ task[h].pc = "suspended")

\* C36: whenever the driver is between calls, a non-empty waiter slot of the
\* acceptor or of the connection names a coroutine that is alive and
\* suspended at the await point of that slot; so a slot used by a task that
\* get() has driven to completion is empty.
C36_WaiterSlotsNameSuspended ==
  Idle =>
    /\ SlotHoldsSuspended(acc.accept_awaiting_, "accept")
    /\ conn.exists =>
         /\ conn.read_awaiting_ # NoTask
              => task[conn.read_awaiting_].pc = "suspended"
         /\ conn.write_awaiting_ # NoTask
              => task[conn.write_awaiting_].pc = "suspended"

---------------------------------------------------------------------------
\* C37: the coroutine that awaits a task is resumed, and await_resume hands
\* it a result, only when the awaited task is at its final suspend point; no
\* result is read before it was stored, and no read is undefined.
C37_AwaiterResumedAfterFinalSuspend ==
  /\ [](~ub)
  /\ [][\A t \in TaskIds :
          Len(task'[t].delivered) > Len(task[t].delivered)
            => /\ task'[t].pc = "done"
               /\ LastDelivered(t) # Returned(NoValue)]_vars

---------------------------------------------------------------------------
\* C38: co_await on a task object runs await_resume only if the object owns
\* a coroutine, and awaiting an empty task object causes no undefined access.
C38_AwaitResumeNeedsCoroutine ==
  [][\A a \in ObjIds :
       TaskAwait(a)
         => /\ tobj'.last.op = "await_resume" => tobj.obj[a].handle_ # NoTask
            /\ tobj.obj[a].handle_ = NoTask => ub' = ub]_vars

====
